---- MODULE Spec2Model ----
(***************************************************************************)
(* Model of the schema-review pipeline of trino-reviewer:                  *)
(*   - SchemaReviewerAgent (application/agents/schema_reviewer.py):        *)
(*     parsing and validation of the request payload, start of the         *)
(*     workflow, conversion of every exception into an error result;       *)
(*   - AnalyzeSchemaWorkflow (application/workflows/analyze_schema.py):    *)
(*     the LangGraph state graph, its seven nodes, the bounded chat        *)
(*     history and the MemorySaver checkpoint store keyed by thread id;    *)
(*   - safe_extract_json (core/utils/json.py): the response extractor;     *)
(*   - SchemaReviewGRPCService (api/grpc/services/schema_review.py): the   *)
(*     conversion of the internal result into the response message.        *)
(*                                                                         *)
(* Python values are tagged records ([t |-> "str", s |-> ...], ...).       *)
(* Texts are sequences of tokens: a token is one character of the text     *)
(* ("{", "[", ":", ",", a double quote, a blank, a line break, a backtick)  *)
(* or a run of other characters.  A TLA+ string cannot hold a backtick:    *)
(* the token "^" stands for it.                                            *)
(* Messages of the program that are written in Russian in the source are   *)
(* rendered in English here.                                               *)
(***************************************************************************)
EXTENDS Integers, Sequences, FiniteSets, TLC

VARIABLES
    maxSize,     \* config.MAX_CHAT_HISTORY_SIZE of this deployment
    faulty,      \* the analysis stages whose try block raises in this deployment
    pc,          \* per request: "idle", "running" (inside graph.invoke), "done"
    payload,     \* per request: the payload handed to review
    st,          \* per request: the AgentState of its graph run
    active,      \* per request: the graph nodes scheduled to run next
    trace,       \* per request: the stages that have run, in order
    sent,        \* per request: the message lists handed to the provider
    llmOutcome,  \* per request: "none", "ok" or "error" (what the provider did)
    before,      \* per request: chat_history as it was when call_llm started
    session,     \* per request: chat_history of its thread's checkpoint when it
                 \* entered the workflow
    out,         \* per request: the value returned by review
    resp,        \* per request: the ReviewSchemaResponse built from it
    store,       \* MemorySaver: thread id -> channel values of the last checkpoint
    vin,         \* harness of one operation: the input it is applied to
    vout         \* harness of one operation: what it returned (<<>> before)

vars == <<maxSize, faulty, pc, payload, st, active, trace, sent, llmOutcome, before,
          session, out, resp, store, vin, vout>>

(***************************************************************************)
(* Bounds of the model.                                                    *)
(***************************************************************************)
\* under SpecHistory MAX_CHAT_HISTORY_SIZE is drawn from 0 .. MaxHistoryCfg
MaxHistoryCfg == 2
\* int() of a text is defined for the decimal numerals of -MaxNumeral .. MaxNumeral
MaxNumeral == 12
\* the DDL lists handed to the schema diff hold up to MaxDdlLen statements
MaxDdlLen == 2

\* the priority score is computed for metrics of -1 .. MaxMetric
MaxMetric == 4

\* the lineage tool is handed up to MaxLineageQueries queries
MaxLineageQueries == 2

\* the rounds a chat history is followed over
MaxRounds == 3

Reqs == {"r1", "r2"}

(***************************************************************************)
(* Python values.                                                          *)
(***************************************************************************)
StrV(s) == [t |-> "str", s |-> s]
IntV(n) == [t |-> "int", n |-> n]
NoneV == [t |-> "none"]
ListV(xs) == [t |-> "list", items |-> xs]
DictV(d) == [t |-> "dict", d |-> d]

Digits == <<"0", "1", "2", "3", "4", "5", "6", "7", "8", "9">>

\* str(n) of an integer: its decimal numeral
RECURSIVE IntToStr(_)
IntToStr(n) ==
    IF n < 0 THEN "-" \o IntToStr(-n)
    ELSE IF n < 10 THEN Digits[n + 1]
    ELSE IntToStr(n \div 10) \o Digits[(n % 10) + 1]

\* str(v)
PyStr(v) ==
    CASE v.t = "str" -> v.s
      [] v.t = "int" -> IntToStr(v.n)
      [] v.t = "none" -> "None"
      [] OTHER -> "<object>"

\* int(v): [ok |-> TRUE, n |-> ...] or [ok |-> FALSE] for ValueError / TypeError
PyInt(v) ==
    CASE v.t = "int" -> [ok |-> TRUE, n |-> v.n]
      [] v.t = "str" ->
            IF \E n \in -MaxNumeral..MaxNumeral : IntToStr(n) = v.s
            THEN [ok |-> TRUE,
                  n |-> CHOOSE n \in -MaxNumeral..MaxNumeral : IntToStr(n) = v.s]
            ELSE [ok |-> FALSE]
      [] OTHER -> [ok |-> FALSE]

\* s.strip() on the texts of the model: a text made of blanks only strips to ""
WhitespaceOnly == {"", " ", "  "}
Strip(s) == IF s \in WhitespaceOnly THEN "" ELSE s

(***************************************************************************)
(* core/models/base.py                                                     *)
(***************************************************************************)
DDLStatement(statement) == [statement |-> statement]
Query(query_id, query, runquantity, executiontime) ==
    [query_id |-> query_id, query |-> query,
     runquantity |-> runquantity, executiontime |-> executiontime]

(***************************************************************************)
(* application/agents/schema_reviewer.py: parsing and validation.          *)
(* A Python dict with the keys "error" and "details" is an error result.   *)
(***************************************************************************)
ErrorResult(error, details) == [error |-> StrV(error), details |-> details]

\* [key for key in keys if key not in d]
RECURSIVE MissingOf(_, _)
MissingOf(keys, d) ==
    IF keys = <<>> THEN <<>>
    ELSE (IF Head(keys) \in DOMAIN d THEN <<>> ELSE <<Head(keys)>>)
         \o MissingOf(Tail(keys), d)

required_keys == <<"url", "ddl", "queries">>
required_query_fields == <<"query_id", "query", "runquantity", "executiontime">>

\* the loop over ddl_data (i is the Python index of the next element):
\* the parsed list, or the error result of the first malformed element
RECURSIVE ParseDdl(_, _, _)
ParseDdl(ddl_data, i, parsed_ddl) ==
    IF i >= Len(ddl_data) THEN [ok |-> TRUE, parsed |-> parsed_ddl]
    ELSE LET item == ddl_data[i + 1] IN
         IF item.t = "dict" /\ "statement" \in DOMAIN item.d
         THEN ParseDdl(ddl_data, i + 1,
                       Append(parsed_ddl, DDLStatement(item.d.statement)))
         ELSE IF item.t = "str"
         THEN ParseDdl(ddl_data, i + 1, Append(parsed_ddl, DDLStatement(item)))
         ELSE [ok |-> FALSE,
               error |-> ErrorResult("Invalid DDL element at index " \o IntToStr(i),
                             StrV("DDL elements must have a 'statement' field or be strings"))]

\* the loop over queries_data: the parsed list, or the error result of the
\* first malformed element
RECURSIVE ParseQueries(_, _, _)
ParseQueries(queries_data, i, parsed_queries) ==
    IF i >= Len(queries_data) THEN [ok |-> TRUE, parsed |-> parsed_queries]
    ELSE LET item == queries_data[i + 1] IN
         IF item.t # "dict"
         THEN [ok |-> FALSE,
               error |-> ErrorResult("Invalid query element at index " \o IntToStr(i),
                             StrV("Query elements must be dicts"))]
         ELSE LET missing_fields == MissingOf(required_query_fields, item.d) IN
              IF missing_fields # <<>>
              THEN [ok |-> FALSE,
                    error |-> ErrorResult("Invalid query at index " \o IntToStr(i),
                                  [t |-> "missing", fields |-> missing_fields])]
              ELSE LET rq == PyInt(item.d.runquantity)
                       et == PyInt(item.d.executiontime)
                   IN IF ~rq.ok \/ ~et.ok
                      THEN [ok |-> FALSE,
                            error |-> ErrorResult("Invalid query data at index "
                                                     \o IntToStr(i),
                                          StrV("Data conversion error"))]
                      ELSE ParseQueries(queries_data, i + 1,
                               Append(parsed_queries,
                                      Query(PyStr(item.d.query_id), PyStr(item.d.query),
                                            rq.n, et.n)))

\* the loop over ddl of _validate_parsed_data
RECURSIVE DdlErrors(_, _)
DdlErrors(ddl, i) ==
    IF i >= Len(ddl) THEN <<>>
    ELSE (IF Strip(ddl[i + 1].statement.s) = ""
          THEN <<"DDL statement " \o IntToStr(i) \o " must not be empty">>
          ELSE <<>>) \o DdlErrors(ddl, i + 1)

\* the loop over queries of a validator without the test for duplicates
RECURSIVE QueryErrorsNoDuplicates(_, _, _)
QueryErrorsNoDuplicates(queries, i, query_ids) ==
    IF i >= Len(queries) THEN [errors |-> <<>>, warnings |-> <<>>]
    ELSE LET query == queries[i + 1]
             rest == QueryErrorsNoDuplicates(queries, i + 1, query_ids)
         IN [errors |->
                (IF Strip(query.query_id) = ""
                 THEN <<"Query " \o IntToStr(i) \o " must have a non-empty query_id">>
                 ELSE <<>>)
                \o (IF Strip(query.query) = ""
                    THEN <<"Query " \o query.query_id \o " must not be empty">>
                    ELSE <<>>)
                \o rest.errors,
             warnings |-> rest.warnings]

\* the loop over queries of _validate_parsed_data
RECURSIVE QueryErrors(_, _, _)
QueryErrors(queries, i, query_ids) ==
    IF i >= Len(queries) THEN [errors |-> <<>>, warnings |-> <<>>]
    ELSE LET query == queries[i + 1]
             blank == Strip(query.query_id) = ""
             dup == ~blank /\ query.query_id \in query_ids
             rest == QueryErrors(queries, i + 1,
                         IF blank \/ dup THEN query_ids
                         ELSE query_ids \cup {query.query_id})
         IN [errors |->
                (IF blank THEN <<"Query " \o IntToStr(i) \o " must have a non-empty query_id">>
                 ELSE IF dup THEN <<"Duplicate query_id found: " \o query.query_id>>
                 ELSE <<>>)
                \o (IF Strip(query.query) = ""
                    THEN <<"Query " \o query.query_id \o " must not be empty">>
                    ELSE <<>>)
                \o rest.errors,
             warnings |->
                (IF query.runquantity < 0
                 THEN <<"Query " \o query.query_id \o " has a negative runquantity">>
                 ELSE <<>>)
                \o (IF query.executiontime < 0
                    THEN <<"Query " \o query.query_id \o " has a negative executiontime">>
                    ELSE <<>>)
                \o rest.warnings]

\* a validator of the parsed data that accepts everything
_validate_parsed_data_lenient(ddl, queries) ==
    [raised |-> FALSE, value |-> [status |-> "valid"]]

\* a validator of the parsed data for which a warning is an error
_validate_parsed_data_strict(ddl, queries) ==
    LET q == IF queries = <<>>
             THEN [errors |-> <<"Query list must not be empty">>, warnings |-> <<>>]
             ELSE QueryErrors(queries, 0, {})
        errors == q.errors \o q.warnings
    IN IF errors # <<>>
       THEN [raised |-> FALSE,
             value |-> [error |-> StrV("Validation error"),
                        details |-> ListV(errors), warnings |-> ListV(<<>>)]]
       ELSE [raised |-> FALSE, value |-> [status |-> "valid"], logged |-> <<>>]

\* _validate_parsed_data: [raised |-> TRUE] when statement.strip() is called on
\* a value that is no text (AttributeError), else the dict it returns, and
\* with the dict {"status": "valid"} the warnings it has logged
_validate_parsed_data(ddl, queries) ==
    IF \E i \in DOMAIN ddl : ddl[i].statement.t # "str"
    THEN [raised |-> TRUE]
    ELSE LET ddlErrors == IF ddl = <<>> THEN <<"DDL list must not be empty">>
                          ELSE DdlErrors(ddl, 0)
             q == IF queries = <<>>
                  THEN [errors |-> <<"Query list must not be empty">>,
                        warnings |-> <<>>]
                  ELSE QueryErrors(queries, 0, {})
             errors == ddlErrors \o q.errors
         IN IF errors # <<>>
            THEN [raised |-> FALSE,
                  value |-> [error |-> StrV("Validation error"),
                             details |-> ListV(errors),
                             warnings |-> ListV(q.warnings)]]
            ELSE [raised |-> FALSE, value |-> [status |-> "valid"], logged |-> q.warnings]

\* _parse_and_validate_payload: the parsed data or an error result
_parse_and_validate_payload(p) ==
    LET missing_keys == MissingOf(required_keys, p) IN
    IF missing_keys # <<>>
    THEN ErrorResult("Missing required keys", [t |-> "missing", fields |-> missing_keys])
    ELSE IF p.url.t # "str" \/ p.url.s = ""
    THEN ErrorResult("Invalid URL format", StrV("URL must be a non-empty string"))
    ELSE IF p.ddl.t # "list"
    THEN ErrorResult("Invalid DDL format", StrV("DDL must be a list"))
    ELSE LET d == ParseDdl(p.ddl.items, 0, <<>>) IN
    IF ~d.ok THEN d.error
    ELSE IF p.queries.t # "list"
    THEN ErrorResult("Invalid queries format", StrV("Queries must be a list"))
    ELSE LET q == ParseQueries(p.queries.items, 0, <<>>) IN
    IF ~q.ok THEN q.error
    ELSE LET validation_result == _validate_parsed_data(d.parsed, q.parsed) IN
    IF validation_result.raised
    THEN ErrorResult("Payload parsing error", StrV("AttributeError"))
    ELSE IF "error" \in DOMAIN validation_result.value
    THEN validation_result.value
    ELSE [url |-> p.url.s, ddl |-> d.parsed, queries |-> q.parsed]

(***************************************************************************)
(* core/validation/schema_validator.py, core/models/validation.py          *)
(***************************************************************************)
ValidationResult(is_valid, errors, warnings) ==
    [is_valid |-> is_valid, errors |-> errors, warnings |-> warnings]

\* the loop over queries of validate_queries: the errors
RECURSIVE ValidateQueriesLoop(_, _, _)
ValidateQueriesLoop(queries, i, query_ids) ==
    IF i >= Len(queries) THEN <<>>
    ELSE LET query == queries[i + 1] IN
         (IF query.query_id \in query_ids
          THEN <<"Duplicate query_id: " \o query.query_id>> ELSE <<>>)
         \o (IF Strip(query.query_id) = ""
             THEN <<"Query " \o IntToStr(i) \o " must have non-empty query_id">> ELSE <<>>)
         \o (IF Strip(query.query) = ""
             THEN <<"Query " \o IntToStr(i) \o " must have non-empty query">> ELSE <<>>)
         \o (IF query.runquantity < 0
             THEN <<"Query " \o query.query_id \o " runquantity cannot be negative">>
             ELSE <<>>)
         \o (IF query.executiontime < 0
             THEN <<"Query " \o query.query_id \o " executiontime cannot be negative">>
             ELSE <<>>)
         \o ValidateQueriesLoop(queries, i + 1, query_ids \cup {query.query_id})

\* SchemaDataValidator.validate_queries
validate_queries(queries) ==
    IF queries = <<>>
    THEN ValidationResult(FALSE, <<"Queries list cannot be empty">>, <<>>)
    ELSE LET errors == ValidateQueriesLoop(queries, 0, {}) IN
         ValidationResult(errors = <<>>, errors, <<>>)

(***************************************************************************)
(* core/utils/json.py: the response extractor, and json.loads.             *)
(***************************************************************************)
TextV(toks) == [t |-> "text", toks |-> toks]
Quote == "\""
Backtick == "^"

IsWs(tok) == tok \in {" ", "\n"}

\* the text of a sequence of tokens
RECURSIVE Cat(_)
Cat(toks) == IF toks = <<>> THEN "" ELSE Head(toks) \o Cat(Tail(toks))

\* the first position from i on that holds no whitespace
RECURSIVE SkipWs(_, _)
SkipWs(text, i) ==
    IF i <= Len(text) /\ IsWs(text[i]) THEN SkipWs(text, i + 1) ELSE i

At(text, i) == IF i >= 1 /\ i <= Len(text) THEN text[i] ELSE "<end>"

IsNumeral(tok) == \E n \in 0..MaxNumeral : IntToStr(n) = tok

JFail == [ok |-> FALSE]

\* a JSON string that starts with the quote at position i
JString(text, i) ==
    LET closing == {j \in (i + 1)..Len(text) : text[j] = Quote} IN
    IF closing = {} THEN JFail
    ELSE LET j == CHOOSE c \in closing : \A d \in closing : c <= d
         IN [ok |-> TRUE, val |-> StrV(Cat(SubSeq(text, i + 1, j - 1))), next |-> j + 1]

RECURSIVE JValue(_, _)
RECURSIVE JMembers(_, _, _)
RECURSIVE JElements(_, _, _)

\* the JSON value that starts at position i0 (after whitespace), as the Python
\* value json.loads builds for it, and the position after it
JValue(text, i0) ==
    LET i == SkipWs(text, i0)
        tok == At(text, i)
    IN CASE tok = "{" ->
              LET k == SkipWs(text, i + 1) IN
              IF At(text, k) = "}"
              THEN [ok |-> TRUE, val |-> DictV(<<>>), next |-> k + 1]
              ELSE JMembers(text, k, <<>>)
         [] tok = "[" ->
              LET k == SkipWs(text, i + 1) IN
              IF At(text, k) = "]"
              THEN [ok |-> TRUE, val |-> ListV(<<>>), next |-> k + 1]
              ELSE JElements(text, k, <<>>)
         [] tok = Quote -> JString(text, i)
         [] tok = "null" -> [ok |-> TRUE, val |-> NoneV, next |-> i + 1]
         [] tok \in {"true", "false"} ->
              [ok |-> TRUE, val |-> [t |-> "bool", b |-> tok = "true"], next |-> i + 1]
         [] OTHER ->
              IF IsNumeral(tok)
              THEN [ok |-> TRUE,
                    val |-> IntV(CHOOSE n \in 0..MaxNumeral : IntToStr(n) = tok),
                    next |-> i + 1]
              ELSE JFail

\* the members of an object from position i on; d holds the members read so far
\* (a repeated key keeps its last value)
JMembers(text, i, d) ==
    IF At(text, i) # Quote THEN JFail
    ELSE LET key == JString(text, i) IN
         IF ~key.ok THEN JFail
         ELSE LET c == SkipWs(text, key.next) IN
              IF At(text, c) # ":" THEN JFail
              ELSE LET v == JValue(text, c + 1) IN
                   IF ~v.ok THEN JFail
                   ELSE LET d2 == [k \in DOMAIN d \cup {key.val.s} |->
                                      IF k = key.val.s THEN v.val ELSE d[k]]
                            n == SkipWs(text, v.next)
                        IN CASE At(text, n) = "," -> JMembers(text, SkipWs(text, n + 1), d2)
                             [] At(text, n) = "}" ->
                                  [ok |-> TRUE, val |-> DictV(d2), next |-> n + 1]
                             [] OTHER -> JFail

\* the elements of an array from position i on
JElements(text, i, items) ==
    LET v == JValue(text, i) IN
    IF ~v.ok THEN JFail
    ELSE LET n == SkipWs(text, v.next) IN
         CASE At(text, n) = "," -> JElements(text, n + 1, Append(items, v.val))
           [] At(text, n) = "]" ->
                [ok |-> TRUE, val |-> ListV(Append(items, v.val)), next |-> n + 1]
           [] OTHER -> JFail

\* json.loads(text): [ok |-> FALSE] stands for json.JSONDecodeError
json_loads(text) ==
    LET v == JValue(text, 1) IN
    IF v.ok /\ SkipWs(text, v.next) > Len(text)
    THEN [ok |-> TRUE, val |-> v.val]
    ELSE JFail

\* the scan of _find_json_objects / _find_json_arrays from position i on
\* (count: brace_count, start_pos: 0 for the source's -1)
RECURSIVE Scan(_, _, _, _, _, _, _)
Scan(text, open, close, i, count, start_pos, candidates) ==
    IF i > Len(text) THEN candidates
    ELSE IF text[i] = open
    THEN Scan(text, open, close, i + 1, count + 1,
              IF count = 0 THEN i ELSE start_pos, candidates)
    ELSE IF text[i] = close
    THEN IF count - 1 = 0 /\ start_pos # 0
         THEN Scan(text, open, close, i + 1, count - 1, 0,
                   Append(candidates, SubSeq(text, start_pos, i)))
         ELSE Scan(text, open, close, i + 1, count - 1, start_pos, candidates)
    ELSE Scan(text, open, close, i + 1, count, start_pos, candidates)

_find_json_objects(text) == Scan(text, "{", "}", 1, 0, 0, <<>>)
_find_json_arrays(text) == Scan(text, "[", "]", 1, 0, 0, <<>>)

\* the first candidate that json.loads accepts, or None
\* variant: only the first candidate is looked at, none is skipped
_validate_json_candidates_head(candidates) ==
    IF candidates # <<>> /\ json_loads(Head(candidates)).ok
    THEN [found |-> TRUE, candidate |-> Head(candidates)]
    ELSE [found |-> FALSE]

RECURSIVE _validate_json_candidates(_)
_validate_json_candidates(candidates) ==
    IF candidates = <<>> THEN [found |-> FALSE]
    ELSE IF json_loads(Head(candidates)).ok
    THEN [found |-> TRUE, candidate |-> Head(candidates)]
    ELSE _validate_json_candidates(Tail(candidates))

\* re.sub of three backticks (followed by the word json when withJson), and
\* the whitespace after them, by nothing
RECURSIVE SubFence(_, _, _)
SubFence(text, i, withJson) ==
    IF i > Len(text) THEN <<>>
    ELSE IF /\ At(text, i) = Backtick /\ At(text, i + 1) = Backtick
            /\ At(text, i + 2) = Backtick
            /\ (withJson => At(text, i + 3) = "json")
    THEN SubFence(text, SkipWs(text, i + (IF withJson THEN 4 ELSE 3)), withJson)
    ELSE <<text[i]>> \o SubFence(text, i + 1, withJson)

\* text.strip()
RECURSIVE RStrip(_)
RStrip(text) ==
    IF text # <<>> /\ IsWs(text[Len(text)])
    THEN RStrip(SubSeq(text, 1, Len(text) - 1)) ELSE text
StripText(text) == RStrip(SubSeq(text, SkipWs(text, 1), Len(text)))

\* variant: the whole text is parsed before the candidates are looked at
safe_extract_json_whole_first(raw) ==
    LET text == StripText(SubFence(SubFence(raw, 1, TRUE), 1, FALSE))
        candidates == _find_json_objects(text) \o _find_json_arrays(text)
        result == _validate_json_candidates(candidates)
    IN IF json_loads(text).ok THEN [ok |-> TRUE, text |-> text]
       ELSE IF result.found THEN [ok |-> TRUE, text |-> result.candidate]
       ELSE [ok |-> FALSE]

\* safe_extract_json: the text it returns, or [ok |-> FALSE] for ValueError
safe_extract_json(raw) ==
    LET text == StripText(SubFence(SubFence(raw, 1, TRUE), 1, FALSE))
        candidates == _find_json_objects(text) \o _find_json_arrays(text)
        result == _validate_json_candidates(candidates)
    IN IF result.found THEN [ok |-> TRUE, text |-> result.candidate]
       ELSE IF json_loads(text).ok THEN [ok |-> TRUE, text |-> text]
       ELSE [ok |-> FALSE]

(***************************************************************************)
(* application/workflows/analyze_schema.py: the nodes of the graph.        *)
(* An AgentState is a function from the keys it holds to their values.     *)
(***************************************************************************)
Get(state, key) == IF key \in DOMAIN state THEN state[key] ELSE NoneV

\* state[key] = value
Put(state, key, value) ==
    [k \in DOMAIN state \cup {key} |-> IF k = key THEN value ELSE state[k]]

\* bool(v)
Truthy(v) ==
    CASE v.t = "none" -> FALSE
      [] v.t = "str" -> v.s # ""
      [] v.t = "text" -> v.toks # <<>>
      [] v.t = "int" -> v.n # 0
      [] v.t = "bool" -> v.b
      [] v.t = "list" -> v.items # <<>>
      [] v.t = "dict" -> DOMAIN v.d # {}
      [] OTHER -> TRUE

\* the text a tool returns for its input
Report(tool, input) == [t |-> "report", tool |-> tool, input |-> input]

\* f(xs[1]), f(xs[2]), ... for the field f of the records of xs
FieldOf(xs, f) == [i \in DOMAIN xs |-> xs[i][f]]

\* _validate_schema_node; probe is what the MCP probe did: "ok" (status,
\* catalogs and test query answered) or "error" (it raised)
_validate_schema_node(state, probe) ==
    IF ~Truthy(Get(state, "url"))
    THEN Put(state, "schema_info", StrV("No database connection URL was given"))
    ELSE IF probe = "ok"
    THEN Put(state, "schema_info",
             StrV("=== CONNECTION STATUS === === CATALOGS === === CONNECTION TEST ==="))
    ELSE Put(state, "schema_info", StrV("Error connecting to the database via MCP HTTP: "))

\* _analyze_performance_node; fails: the body of its try block raised
_analyze_performance_node(state, fails) ==
    IF fails
    THEN Put(state, "performance_analysis", StrV("Performance analysis error: "))
    ELSE LET queries == IF "queries" \in DOMAIN state THEN state.queries ELSE <<>>
             queries_data == [i \in DOMAIN queries |->
                                [query_id |-> queries[i].query_id,
                                 query |-> queries[i].query,
                                 executiontime |-> queries[i].executiontime,
                                 runquantity |-> queries[i].runquantity]]
         IN IF queries_data # <<>>
            THEN Put(state, "performance_analysis",
                     Report("performance_analyzer", queries_data))
            ELSE Put(state, "performance_analysis",
                     StrV("No query data for the performance analysis"))

\* a lineage node whose except clause writes nothing
_analyze_lineage_node_silent(state, fails) ==
    IF fails THEN state
    ELSE Put(state, "data_lineage", StrV("No SQL queries for the lineage analysis"))

\* _analyze_lineage_node; fails: the body of its try block raised
_analyze_lineage_node(state, fails) ==
    IF fails
    THEN Put(state, "data_lineage", StrV("Lineage analysis error: "))
    ELSE LET queries == IF "queries" \in DOMAIN state THEN state.queries ELSE <<>>
             sql_queries == FieldOf(queries, "query")
         IN IF sql_queries # <<>>
            THEN Put(state, "data_lineage", Report("data_lineage", sql_queries))
            ELSE Put(state, "data_lineage", StrV("No SQL queries for the lineage analysis"))

\* _compose_prompt: the template filled with the statements and the queries,
\* followed by one section for each analysis that is not empty
_compose_prompt(ddl, queries, url, schema_info, performance_analysis, data_lineage) ==
    [t |-> "prompt",
     template |-> "trino_schema_analysis",
     ddl_statements |-> [i \in DOMAIN ddl |-> ddl[i].statement.s],
     queries |-> queries,
     sections |->
        (IF Truthy(schema_info) THEN <<[title |-> "SCHEMA", body |-> schema_info]>>
         ELSE <<>>)
        \o (IF Truthy(performance_analysis)
            THEN <<[title |-> "PERFORMANCE", body |-> performance_analysis]>> ELSE <<>>)
        \o (IF Truthy(data_lineage)
            THEN <<[title |-> "LINEAGE", body |-> data_lineage]>> ELSE <<>>),
     hint |-> Truthy(schema_info) \/ Truthy(performance_analysis) \/ Truthy(data_lineage)]

_compose_prompt_node(state) ==
    Put(state, "prompt",
        _compose_prompt(state.ddl, state.queries, Get(state, "url"),
                        Get(state, "schema_info"), Get(state, "performance_analysis"),
                        Get(state, "data_lineage")))

\* application/handlers/llm_message_handler.py: the messages process_messages
\* hands to the provider
RECURSIVE HistoryMessages(_)
HistoryMessages(chat_history) ==
    IF chat_history = <<>> THEN <<>>
    ELSE LET msg == Head(chat_history) IN
         (IF msg.role = "user" THEN <<[type |-> "human", content |-> msg.content]>>
          ELSE IF msg.role = "assistant" THEN <<[type |-> "ai", content |-> msg.content]>>
          ELSE <<>>)
         \o HistoryMessages(Tail(chat_history))

\* a handler that is given the prompt once more after the history
process_messages_prompt_twice(prompt, system_message, chat_history) ==
    <<[type |-> "system", content |-> system_message]>>
    \o HistoryMessages(chat_history)
    \o <<[type |-> "human", content |-> prompt], [type |-> "human", content |-> prompt]>>

process_messages(prompt, system_message, chat_history) ==
    <<[type |-> "system", content |-> system_message]>>
    \o HistoryMessages(chat_history)
    \o <<[type |-> "human", content |-> prompt]>>

\* xs[:n] of Python, which keeps the head
FirstN(xs, n) == IF n >= Len(xs) THEN xs ELSE SubSeq(xs, 1, n)

\* xs[-n:] of Python
LastN(xs, n) ==
    IF n = 0 \/ n >= Len(xs) THEN xs ELSE SubSeq(xs, Len(xs) - n + 1, Len(xs))

\* _update_chat_history
_update_chat_history(state, max_size) ==
    LET old == IF "chat_history" \in DOMAIN state THEN state.chat_history ELSE <<>>
        appended == old \o <<[role |-> "user", content |-> state.prompt],
                             [role |-> "assistant", content |-> state.response]>>
    IN Put(state, "chat_history",
           IF Len(appended) > max_size THEN LastN(appended, max_size) ELSE appended)

\* a call_llm node that swallows the exception of the provider and goes on
\* with an empty response
_call_llm_node_swallow(state, llm, max_size) ==
    [raised |-> FALSE,
     state |-> _update_chat_history(
                   Put(state, "response",
                       TextV(IF llm.raised THEN <<>> ELSE llm.text)), max_size)]

\* _call_llm_node; llm is what the provider did with the messages:
\* [raised |-> TRUE] or [raised |-> FALSE, text |-> the response]
_call_llm_node(state, llm, max_size) ==
    IF llm.raised THEN [raised |-> TRUE, error |-> "provider error"]
    ELSE [raised |-> FALSE,
          state |-> _update_chat_history(Put(state, "response", TextV(llm.text)), max_size)]

\* _parse_response_node
_parse_response_node(state) ==
    LET json_response == safe_extract_json(state.response.toks) IN
    IF ~json_response.ok
    THEN [raised |-> TRUE, error |-> "No valid JSON object or array was found"]
    ELSE LET parsed_result == json_loads(json_response.text) IN
         IF ~parsed_result.ok
         THEN [raised |-> TRUE, error |-> "JSONDecodeError"]
         ELSE [raised |-> FALSE, state |-> Put(state, "result", parsed_result.val)]

\* key in v, for the Python values that support it
Contains(v, key) ==
    CASE v.t = "dict" -> key \in DOMAIN v.d
      [] v.t = "list" -> \E i \in DOMAIN v.items : v.items[i] = StrV(key)
      [] OTHER -> FALSE

\* a node that puts what it found into the result as well
_validate_changes_node_in_result(state) ==
    LET schema_diff == StrV("No data to compare the schemas") IN
    Put(Put(state, "schema_diff", schema_diff),
        "result", DictV([schema_diff |-> schema_diff]))

\* _validate_changes_node
_validate_changes_node(state) ==
    LET ddl == IF "ddl" \in DOMAIN state THEN state.ddl ELSE <<>>
        current_ddl == [i \in DOMAIN ddl |-> ddl[i].statement]
        result == IF "result" \in DOMAIN state THEN state.result ELSE DictV(<<>>)
        hasDdl == Truthy(result) /\ Contains(result, "ddl")
        \* result["ddl"] and ddl_item.get(...) raise unless result is a dict
        \* whose "ddl" is a list of dicts
        raises == hasDdl /\ (\/ result.t # "dict"
                            \/ result.d.ddl.t # "list"
                            \/ \E i \in DOMAIN result.d.ddl.items :
                                  result.d.ddl.items[i].t # "dict")
        items == IF hasDdl /\ ~raises THEN result.d.ddl.items ELSE <<>>
        kept == {i \in DOMAIN items :
                    "statement" \in DOMAIN items[i].d /\ Truthy(items[i].d.statement)}
        proposed_ddl == [n \in 1..Cardinality(kept) |->
                            items[CHOOSE i \in kept :
                                     Cardinality({j \in kept : j <= i}) = n].d.statement]
    IN IF raises
       THEN Put(state, "schema_diff", StrV("Change validation error: "))
       ELSE IF current_ddl # <<>> \/ proposed_ddl # <<>>
       THEN Put(state, "schema_diff",
                Report("schema_diff", [current_schema |-> current_ddl,
                                       proposed_schema |-> proposed_ddl]))
       ELSE Put(state, "schema_diff", StrV("No data to compare the schemas"))

(***************************************************************************)
(* api/grpc/services/schema_review.py: the response message.               *)
(***************************************************************************)
ReviewSchemaResponse(success, message, error, ddl, migrations, queries, warnings) ==
    [success |-> success, message |-> message, error |-> error, ddl |-> ddl,
     migrations |-> migrations, queries |-> queries, warnings |-> warnings]

\* the elements of items that are dicts holding every key of fields, in order
RECURSIVE Collect(_, _)
Collect(items, fields) ==
    IF items = <<>> THEN <<>>
    ELSE (IF Head(items).t = "dict" /\ fields \subseteq DOMAIN Head(items).d
          THEN <<Head(items).d>> ELSE <<>>)
         \o Collect(Tail(items), fields)

\* the loop over result[key] of _convert_result_to_grpc_response: the messages
\* built from the elements that hold fields, or raised (TypeError) when
\* result[key] cannot be taken or iterated, or a field is no text
Section(result, key, fields) ==
    IF ~Contains(result, key) THEN [raised |-> FALSE, items |-> <<>>]
    ELSE IF result.t # "dict" THEN [raised |-> TRUE]
    ELSE LET v == result.d[key] IN
         IF ~Truthy(v) THEN [raised |-> FALSE, items |-> <<>>]
         ELSE IF v.t \in {"int", "bool"} THEN [raised |-> TRUE]
         ELSE IF v.t # "list" THEN [raised |-> FALSE, items |-> <<>>]
         ELSE LET got == Collect(v.items, fields) IN
              IF \E i \in DOMAIN got : \E f \in fields : got[i][f].t # "str"
              THEN [raised |-> TRUE]
              ELSE [raised |-> FALSE,
                    items |-> [i \in DOMAIN got |-> [f \in fields |-> got[i][f].s]]]

\* result["warnings"], a list of texts
Warnings(result) ==
    IF ~Contains(result, "warnings") THEN [raised |-> FALSE, items |-> <<>>]
    ELSE IF result.t # "dict" \/ result.d.warnings.t # "list" THEN [raised |-> TRUE]
    ELSE [raised |-> FALSE, items |-> result.d.warnings.items]

\* _convert_result_to_grpc_response: the response, or raised (TypeError)
_convert_result_to_grpc_response(result) ==
    IF result.t \notin {"dict", "list"} THEN [raised |-> TRUE]
    ELSE IF Contains(result, "error")
    THEN IF result.t # "dict" \/ result.d.error.t # "str" \/ Warnings(result).raised
         THEN [raised |-> TRUE]
         ELSE [raised |-> FALSE,
               value |-> ReviewSchemaResponse(FALSE, "Validation or processing error",
                             result.d.error.s, <<>>, <<>>, <<>>, Warnings(result).items)]
    ELSE LET ddl == Section(result, "ddl", {"statement"})
             migrations == Section(result, "migrations", {"statement"})
             queries == Section(result, "queries", {"query_id", "query"})
             warnings == Warnings(result)
         IN IF ddl.raised \/ migrations.raised \/ queries.raised \/ warnings.raised
            THEN [raised |-> TRUE]
            ELSE [raised |-> FALSE,
                  value |-> ReviewSchemaResponse(TRUE,
                                "Schema review completed successfully", "",
                                ddl.items, migrations.items, queries.items,
                                warnings.items)]

\* ReviewSchema, from the result of review_service.review on
ReviewSchemaReply(result) ==
    LET response == _convert_result_to_grpc_response(result) IN
    IF response.raised
    THEN ReviewSchemaResponse(FALSE, "Internal server error", "TypeError",
                              <<>>, <<>>, <<>>, <<>>)
    ELSE response.value

(***************************************************************************)
(* Inputs of the model: request payloads, provider responses.              *)
(***************************************************************************)
Absent == [t |-> "absent"]

\* a payload dict; a component that is Absent is a missing key
MkPayload(url, ddl, queries, thread_id) ==
    LET all == [url |-> url, ddl |-> ddl, queries |-> queries, thread_id |-> thread_id]
    IN [k \in {k \in DOMAIN all : all[k] # Absent} |-> all[k]]

QueryItem(query_id, query, runquantity, executiontime) ==
    DictV([query_id |-> query_id, query |-> query,
           runquantity |-> runquantity, executiontime |-> executiontime])

Q1 == QueryItem(StrV("q1"), StrV("SELECT a FROM t1"), IntV(5), IntV(7))
Q2 == QueryItem(StrV("q2"), StrV("SELECT b FROM t1 JOIN t2"), StrV("3"), IntV(2))
Q3 == QueryItem(IntV(3), StrV("SELECT c FROM t2"), IntV(1), IntV(1))

GoodUrl == StrV("trino://host")
GoodDdl == ListV(<<DictV([statement |-> StrV("CREATE TABLE t1")])>>)
GoodDdl2 == ListV(<<DictV([statement |-> StrV("CREATE TABLE t1")]),
                    StrV("CREATE TABLE t2")>>)
GoodQueries == ListV(<<Q1>>)
GoodQueries2 == ListV(<<Q2, Q3>>)

BadUrls == {Absent, StrV(""), IntV(7)}
BadDdls ==
    {Absent,
     StrV("CREATE TABLE t1"),                          \* not a list
     ListV(<<>>),                                        \* empty list
     ListV(<<StrV(" ")>>),                               \* blank statement
     ListV(<<StrV("CREATE TABLE t1"), StrV("")>>),        \* blank statement
     ListV(<<IntV(3)>>),                                 \* malformed element
     ListV(<<IntV(3), NoneV>>),                          \* two malformed elements
     ListV(<<DictV([statement |-> IntV(3)])>>)}          \* statement is no text
BadQueries ==
    {Absent,
     Q1,                                                 \* not a list
     ListV(<<>>),                                        \* empty list
     ListV(<<StrV("SELECT 1")>>),                        \* element is no dict
     ListV(<<DictV([query_id |-> StrV("q1")])>>),        \* missing fields
     ListV(<<Q1, DictV([query |-> StrV("SELECT 1")]), IntV(0)>>),
     ListV(<<QueryItem(StrV("q1"), StrV("SELECT 1"), StrV("many"), IntV(1))>>),
     ListV(<<QueryItem(StrV("q1"), StrV("SELECT 1"), IntV(1), NoneV)>>),
     ListV(<<QueryItem(StrV(" "), StrV("SELECT 1"), IntV(1), IntV(1))>>),
     ListV(<<QueryItem(StrV("q1"), StrV(" "), IntV(1), IntV(1))>>),
     ListV(<<Q1, Q1>>),                                  \* duplicate query_id
     ListV(<<Q2, Q1, Q2>>),                              \* duplicate query_id
     ListV(<<QueryItem(StrV(""), StrV(""), IntV(-1), IntV(1)), Q1, Q1>>)}
WarnQueries ==
    {ListV(<<QueryItem(StrV("q1"), StrV("SELECT 1"), IntV(-1), IntV(1))>>),
     ListV(<<Q1, QueryItem(StrV("q2"), StrV("SELECT 1"), IntV(1), StrV("-2"))>>)}

Urls == {GoodUrl} \cup BadUrls
Ddls == {GoodDdl, GoodDdl2} \cup BadDdls
Queries == {GoodQueries, GoodQueries2} \cup BadQueries \cup WarnQueries

\* the payloads the validator is exercised on
AllPayloads == {MkPayload(u, d, q, Absent) : u \in Urls, d \in Ddls, q \in Queries}

\* the thread ids a request may carry (Absent: no thread_id in the payload)
ThreadIdsIn == {Absent, StrV("t1")}

\* a query with a negative runquantity and a negative executiontime
NegativeQueries ==
    ListV(<<QueryItem(StrV("q1"), StrV("SELECT a FROM t1"), IntV(-1), StrV("-2"))>>)

\* the payloads the pipeline is exercised on: the valid ones, one of them with
\* negative metrics, and one malformed payload of each kind
PipelinePayloads ==
    {MkPayload(GoodUrl, GoodDdl,
               IF th = Absent THEN GoodQueries ELSE NegativeQueries, th) :
        th \in ThreadIdsIn}
    \cup {MkPayload(GoodUrl, GoodDdl2, GoodQueries2, StrV("t1"))}
    \cup {MkPayload(u, GoodDdl, GoodQueries, Absent) : u \in {Absent, IntV(7)}}
    \cup {MkPayload(GoodUrl, d, GoodQueries, Absent) :
              d \in {ListV(<<>>), ListV(<<StrV(" ")>>)}}
    \cup {MkPayload(GoodUrl, GoodDdl, q, StrV("t1")) :
              q \in {ListV(<<>>),
                     ListV(<<QueryItem(StrV(" "), StrV("SELECT 1"), IntV(1), IntV(1))>>),
                     ListV(<<QueryItem(StrV("q1"), StrV(" "), IntV(1), IntV(1))>>),
                     ListV(<<Q1, Q1>>)}}

\* the texts the reasoning provider answers with
Q(s) == <<Quote, s, Quote>>
RespFenced ==
    <<"Here", " ", "it", " ", "is", ":", "\n", Backtick, Backtick, Backtick, "json", "\n", "{">>
    \o Q("ddl") \o <<":", "[", "{">> \o Q("statement") \o <<":">>
    \o Q("CREATE INDEX i1") \o <<"}", "]", ",">>
    \o Q("migrations") \o <<":", "[", "]", ",">>
    \o Q("queries") \o <<":", "[", "{">> \o Q("query_id") \o <<":">> \o Q("q1")
    \o <<",">> \o Q("query") \o <<":">> \o Q("SELECT a FROM t1") \o <<"}", "]", "}">>
    \o <<"\n", Backtick, Backtick, Backtick>>
RespInvented ==
    <<"{">> \o Q("queries") \o <<":", " ", "[", "{">> \o Q("query_id") \o <<":">> \o Q("q9")
    \o <<",">> \o Q("query") \o <<":">> \o Q("SELECT 1") \o <<"}", "]", "}">>
RespBadDdl ==
    <<"{">> \o Q("ddl") \o <<":", "[">> \o Q("CREATE TABLE t1") \o <<"]", "}">>
RespProse == <<"I", " ", "cannot", " ", "answer", " ", "{", "sorry">>

ResponseTexts == {RespFenced, RespInvented, RespBadDdl, RespProse}

\* what the provider may do with a call
LlmOutcomes ==
    {[raised |-> TRUE]} \cup {[raised |-> FALSE, text |-> x] : x \in ResponseTexts}

(***************************************************************************)
(* The graph of AnalyzeSchemaWorkflow and its run under graph.invoke.      *)
(***************************************************************************)
START == "__start__"
END == "__end__"
Nodes == {"validate_schema", "analyze_performance", "analyze_lineage",
          "compose_prompt", "call_llm", "parse_response", "validate_changes"}

\* the edges of a graph in which validate_schema fans out to two nodes
EdgesFanOut ==
    {<<START, "validate_schema">>,
     <<"validate_schema", "analyze_performance">>,
     <<"validate_schema", "analyze_lineage">>,
     <<"analyze_performance", "analyze_lineage">>,
     <<"analyze_lineage", "compose_prompt">>,
     <<"compose_prompt", "call_llm">>,
     <<"call_llm", "parse_response">>,
     <<"parse_response", "validate_changes">>,
     <<"validate_changes", END>>}

\* _build_graph: the edges
Edges ==
    {<<START, "validate_schema">>,
     <<"validate_schema", "analyze_performance">>,
     <<"analyze_performance", "analyze_lineage">>,
     <<"analyze_lineage", "compose_prompt">>,
     <<"compose_prompt", "call_llm">>,
     <<"call_llm", "parse_response">>,
     <<"parse_response", "validate_changes">>,
     <<"validate_changes", END>>}

\* the nodes an edge leads to from n
Succ(n) == {m \in Nodes : <<n, m>> \in Edges}

DEFAULT_THREAD_ID == "default"
ThreadIds == {DEFAULT_THREAD_ID, "t1"}

\* review.py: thread_id = payload.get("thread_id"); execute: thread_id or
\* config.DEFAULT_THREAD_ID
ThreadOf(p) ==
    LET thread_id == Get(p, "thread_id") IN
    IF Truthy(thread_id) THEN thread_id.s ELSE DEFAULT_THREAD_ID

\* review: the initial state built from the parsed data
InitialState(parsed_data) ==
    [ddl |-> parsed_data.ddl, queries |-> parsed_data.queries, url |-> StrV(parsed_data.url),
     prompt |-> TextV(<<>>), response |-> TextV(<<>>), result |-> DictV(<<>>),
     chat_history |-> <<>>]

\* a graph.invoke in which the channels of the thread's last checkpoint win
\* over the keys of the input
LoadState_checkpoint_wins(checkpoint, initial_state) ==
    [k \in DOMAIN checkpoint \cup DOMAIN initial_state |->
        IF k \in DOMAIN checkpoint THEN checkpoint[k] ELSE initial_state[k]]

\* graph.invoke(initial_state, config) with a checkpointer: the channels of
\* the thread's last checkpoint, each key of the input overwriting its channel
LoadState(checkpoint, initial_state) ==
    [k \in DOMAIN checkpoint \cup DOMAIN initial_state |->
        IF k \in DOMAIN initial_state THEN initial_state[k] ELSE checkpoint[k]]

\* review's except clause: the error result for an exception
InternalError(e) ==
    DictV(ErrorResult("Internal error while analysing the schema", StrV(e)))

(***************************************************************************)
(* Actions.                                                                *)
(***************************************************************************)
NoResponse == [pending |-> TRUE]

\* config.py: the default of MAX_CHAT_HISTORY_SIZE
MAX_CHAT_HISTORY_SIZE == 10

Stages == {"schema_probe", "performance", "lineage"}

\* no request has arrived, no thread has a checkpoint
InitRequests ==
    /\ pc = [r \in Reqs |-> "idle"]
    /\ payload = [r \in Reqs |-> <<>>]
    /\ st = [r \in Reqs |-> <<>>]
    /\ active = [r \in Reqs |-> {}]
    /\ trace = [r \in Reqs |-> <<>>]
    /\ sent = [r \in Reqs |-> <<>>]
    /\ llmOutcome = [r \in Reqs |-> "none"]
    /\ before = [r \in Reqs |-> <<>>]
    /\ session = [r \in Reqs |-> <<>>]
    /\ out = [r \in Reqs |-> NoneV]
    /\ resp = [r \in Reqs |-> NoResponse]
    /\ store = [t \in ThreadIds |-> <<>>]

\* the deployment with the default configuration; any of the analysis stages
\* may be failing
Init ==
    /\ maxSize = MAX_CHAT_HISTORY_SIZE
    /\ faulty \in SUBSET Stages
    /\ InitRequests
    /\ vin = <<>>
    /\ vout = <<>>

\* ReviewSchema -> SchemaReviewService.review -> SchemaReviewerAgent.review, up
\* to the start of graph.invoke: validation, and on success the initial state
\* written over the thread's checkpoint
Review(r) ==
    /\ pc[r] = "idle"
    /\ \E p \in PipelinePayloads :
          LET parsed_data == _parse_and_validate_payload(p)
              thread == ThreadOf(p)
          IN /\ payload' = [payload EXCEPT ![r] = p]
             /\ trace' = [trace EXCEPT ![r] = <<"parse_and_validate">>]
             /\ IF "error" \in DOMAIN parsed_data
                THEN /\ pc' = [pc EXCEPT ![r] = "done"]
                     /\ out' = [out EXCEPT ![r] = DictV(parsed_data)]
                     /\ resp' = [resp EXCEPT ![r] = ReviewSchemaReply(DictV(parsed_data))]
                     /\ UNCHANGED <<st, active, session, store>>
                ELSE LET state == LoadState(store[thread], InitialState(parsed_data)) IN
                     /\ pc' = [pc EXCEPT ![r] = "running"]
                     /\ session' = [session EXCEPT ![r] =
                                      IF "chat_history" \in DOMAIN store[thread]
                                      THEN store[thread].chat_history ELSE <<>>]
                     /\ st' = [st EXCEPT ![r] = state]
                     /\ store' = [store EXCEPT ![thread] = state]
                     /\ active' = [active EXCEPT ![r] = Succ(START)]
                     /\ UNCHANGED <<out, resp>>
    /\ UNCHANGED <<maxSize, faulty, sent, llmOutcome, before, vin, vout>>

\* one step of graph.invoke: node n of request r has run and res is what it
\* did.  A state it returns is written to the channels and to the checkpoint
\* of the thread, and the nodes its edges lead to are scheduled; an exception
\* it raises leaves graph.invoke and execute, and review turns it into an
\* error result.
Step(r, n, res) ==
    /\ pc[r] = "running"
    /\ n \in active[r]
    /\ trace' = [trace EXCEPT ![r] = Append(@, n)]
    /\ IF res.raised
       THEN /\ pc' = [pc EXCEPT ![r] = "done"]
            /\ active' = [active EXCEPT ![r] = {}]
            /\ out' = [out EXCEPT ![r] = InternalError(res.error)]
            /\ resp' = [resp EXCEPT ![r] = ReviewSchemaReply(InternalError(res.error))]
            /\ UNCHANGED <<st, store>>
       ELSE /\ st' = [st EXCEPT ![r] = res.state]
            /\ store' = [store EXCEPT ![ThreadOf(payload[r])] = res.state]
            /\ active' = [active EXCEPT ![r] = (@ \ {n}) \cup (Succ(n) \ {END})]
            /\ UNCHANGED <<pc, out, resp>>
    /\ UNCHANGED <<maxSize, faulty, payload, session, vin, vout>>

Returned(state) == [raised |-> FALSE, state |-> state]

ValidateSchema(r) ==
    /\ Step(r, "validate_schema",
            Returned(_validate_schema_node(st[r], IF "schema_probe" \in faulty
                                                  THEN "error" ELSE "ok")))
    /\ UNCHANGED <<sent, llmOutcome, before>>

AnalyzePerformance(r) ==
    /\ Step(r, "analyze_performance",
            Returned(_analyze_performance_node(st[r], "performance" \in faulty)))
    /\ UNCHANGED <<sent, llmOutcome, before>>

AnalyzeLineage(r) ==
    /\ Step(r, "analyze_lineage",
            Returned(_analyze_lineage_node(st[r], "lineage" \in faulty)))
    /\ UNCHANGED <<sent, llmOutcome, before>>

ComposePrompt(r) ==
    /\ Step(r, "compose_prompt", Returned(_compose_prompt_node(st[r])))
    /\ UNCHANGED <<sent, llmOutcome, before>>

CallLlm(r) ==
    /\ pc[r] = "running"
    /\ "call_llm" \in active[r]
    /\ \E llm \in LlmOutcomes :
          /\ Step(r, "call_llm", _call_llm_node(st[r], llm, maxSize))
          /\ llmOutcome' = [llmOutcome EXCEPT ![r] = IF llm.raised THEN "error" ELSE "ok"]
    /\ sent' = [sent EXCEPT ![r] =
                  Append(@, process_messages(st[r].prompt, "system_reviewer",
                                             IF "chat_history" \in DOMAIN st[r]
                                             THEN st[r].chat_history ELSE <<>>))]
    /\ before' = [before EXCEPT ![r] = IF "chat_history" \in DOMAIN st[r]
                                       THEN st[r].chat_history ELSE <<>>]

ParseResponse(r) ==
    /\ pc[r] = "running"
    /\ "parse_response" \in active[r]
    /\ Step(r, "parse_response", _parse_response_node(st[r]))
    /\ UNCHANGED <<sent, llmOutcome, before>>

ValidateChanges(r) ==
    /\ Step(r, "validate_changes", Returned(_validate_changes_node(st[r])))
    /\ UNCHANGED <<sent, llmOutcome, before>>

\* graph.invoke has reached END: execute returns final_state["result"], review
\* returns it and ReviewSchema converts it
Return(r) ==
    /\ pc[r] = "running"
    /\ active[r] = {}
    /\ pc' = [pc EXCEPT ![r] = "done"]
    /\ out' = [out EXCEPT ![r] = st[r].result]
    /\ resp' = [resp EXCEPT ![r] = ReviewSchemaReply(st[r].result)]
    /\ UNCHANGED <<maxSize, faulty, payload, st, active, trace, sent, llmOutcome,
                   before, session, store, vin, vout>>

Next ==
    \E r \in Reqs :
        \/ Review(r)
        \/ ValidateSchema(r)
        \/ AnalyzePerformance(r)
        \/ AnalyzeLineage(r)
        \/ ComposePrompt(r)
        \/ CallLlm(r)
        \/ ParseResponse(r)
        \/ ValidateChanges(r)
        \/ Return(r)

Spec == Init /\ [][Next]_vars

\* the deployments with a small MAX_CHAT_HISTORY_SIZE, no stage failing
InitHistory ==
    /\ maxSize \in 0..MaxHistoryCfg
    /\ faulty = {}
    /\ InitRequests
    /\ vin = <<>>
    /\ vout = <<>>

SpecHistory == InitHistory /\ [][Next]_vars

(***************************************************************************)
(* _call_llm_node alone, round after round on one state whose chat_history *)
(* is kept, for every small maximum.                                       *)
(***************************************************************************)
RoundPrompts == {"p1", "p2"}
RoundOutcomes == {[raised |-> TRUE], [raised |-> FALSE, text |-> <<"a1">>],
                  [raised |-> FALSE, text |-> <<"a2">>]}

InitRounds ==
    /\ maxSize = MAX_CHAT_HISTORY_SIZE
    /\ faulty = {}
    /\ InitRequests
    /\ vin \in [max_size : 0..(2 * MaxHistoryCfg)]
    /\ vout = [state |-> [prompt |-> "", response |-> TextV(<<>>)], rounds |-> 0,
               messages |-> <<>>, before |-> <<>>, raised |-> FALSE]

\* one round: the prompt is written and _call_llm_node runs; messages is
\* what the provider has received, before the history the node started with
Round ==
    /\ vout.rounds < MaxRounds
    /\ \E prompt \in RoundPrompts, llm \in RoundOutcomes :
          LET state == Put(vout.state, "prompt", prompt)
              chat_history == IF "chat_history" \in DOMAIN state
                              THEN state.chat_history ELSE <<>>
              res == _call_llm_node(state, llm, vin.max_size)
          IN vout' = [state |-> IF res.raised THEN state ELSE res.state,
                      rounds |-> vout.rounds + 1,
                      messages |-> process_messages(state.prompt, "system_reviewer",
                                                    chat_history),
                      before |-> chat_history,
                      raised |-> res.raised]
    /\ UNCHANGED <<maxSize, faulty, pc, payload, st, active, trace, sent, llmOutcome,
                   before, session, out, resp, store, vin>>

NextRounds == Round

SpecRounds == InitRounds /\ [][NextRounds]_vars

(***************************************************************************)
(* The validator alone, on every payload of AllPayloads.                   *)
(***************************************************************************)
InitValidate ==
    /\ maxSize = MAX_CHAT_HISTORY_SIZE
    /\ faulty = {}
    /\ InitRequests
    /\ vin \in AllPayloads
    /\ vout = <<>>

Validate ==
    /\ vout = <<>>
    /\ vout' = _parse_and_validate_payload(vin)
    /\ UNCHANGED <<maxSize, faulty, pc, payload, st, active, trace, sent, llmOutcome,
                   before, session, out, resp, store, vin>>

NextValidate == Validate

SpecValidate == InitValidate /\ [][NextValidate]_vars

(***************************************************************************)
(* The two validators of the queries, on every list of QueryLists.         *)
(***************************************************************************)
\* the query elements the lists are made of
QueryItems ==
    {QueryItem(id, q, rq, et) :
        id \in {StrV("q1"), StrV("q2"), StrV(" ")},
        q \in {StrV("SELECT 1"), StrV("")},
        rq \in {IntV(1), IntV(-1)},
        et \in {IntV(2), StrV("-2")}}

\* the lists of one or two elements, and some with a duplicate that is not
\* adjacent or occurs three times
QueryLists ==
    {<<a>> : a \in QueryItems}
    \cup {<<a, b>> : a, b \in QueryItems}
    \cup {<<Q1, Q2, c>> : c \in {Q1, Q2, Q3}}
    \cup {<<Q1, Q1, Q1>>, <<Q3, Q1, QueryItem(StrV("3"), StrV("SELECT 1"), IntV(1), IntV(1))>>}

InitQueries ==
    /\ maxSize = MAX_CHAT_HISTORY_SIZE
    /\ faulty = {}
    /\ InitRequests
    /\ vin \in {MkPayload(GoodUrl, GoodDdl, ListV(qs), Absent) : qs \in QueryLists}
    /\ vout = <<>>

\* the payload is parsed and validated by the agent, and its parsed queries
\* are given to SchemaDataValidator.validate_queries
ValidateQueries ==
    /\ vout = <<>>
    /\ vout' = [result |-> _parse_and_validate_payload(vin),
                checked |-> validate_queries(
                               ParseQueries(vin.queries.items, 0, <<>>).parsed)]
    /\ UNCHANGED <<maxSize, faulty, pc, payload, st, active, trace, sent, llmOutcome,
                   before, session, out, resp, store, vin>>

NextQueries == ValidateQueries

SpecQueries == InitQueries /\ [][NextQueries]_vars

(***************************************************************************)
(* The extractor alone, on the texts of ExtractTexts.                      *)
(***************************************************************************)
\* the text safe_extract_json scans: fences removed, stripped
Unfence(raw) == StripText(SubFence(SubFence(raw, 1, TRUE), 1, FALSE))

Fence == <<Backtick, Backtick, Backtick>>

\* what may stand in front of the embedded fragment
TextPrefixes ==
    {<<>>,
     <<"See", " ">>,
     <<"use", " ", "{", "x", "}", " ">>,
     <<"try", " ", "[", "x", "]", " ">>,
     <<"list", " ", "[", "1", "]", " ">>,
     <<"oops", " ", "{", " ">>,
     Fence \o <<"json", "\n">>,
     <<"Here", ":", "\n">> \o Fence \o <<"\n">>}

\* the embedded fragments, each with the value it stands for when it is
\* well-formed JSON
ObjSimple == [toks |-> <<"{">> \o Q("a") \o <<":", " ", "1", "}">>,
              val |-> DictV([a |-> IntV(1)])]
ObjNested == [toks |-> <<"{">> \o Q("a") \o <<":", "{">> \o Q("b")
                           \o <<":", "[", "1", ",", "2", "]", "}", "}">>,
              val |-> DictV([a |-> DictV([b |-> ListV(<<IntV(1), IntV(2)>>)])])]
ObjEmpty == [toks |-> <<"{", "}">>, val |-> DictV(<<>>)]
ObjBraceInString == [toks |-> <<"{">> \o Q("a") \o <<":">> \o Q("}") \o <<"}">>,
                     val |-> DictV([a |-> StrV("}")])]
ObjOpenBraceInString == [toks |-> <<"{">> \o Q("a") \o <<":">> \o Q("{") \o <<"}">>,
                         val |-> DictV([a |-> StrV("{")])]
ObjBracketInString == [toks |-> <<"{">> \o Q("a") \o <<":">> \o Q("]") \o <<"}">>,
                       val |-> DictV([a |-> StrV("]")])]
ObjBacktickInString == [toks |-> <<"{">> \o Q("a") \o <<":">> \o Q(Backtick) \o <<"}">>,
                        val |-> DictV([a |-> StrV(Backtick)])]
ObjFenceInString ==
    [toks |-> <<"{">> \o Q("a") \o <<":", Quote>> \o Fence \o <<Quote, "}">>,
     val |-> DictV([a |-> StrV(Backtick \o Backtick \o Backtick)])]

JsonObjects ==
    {ObjSimple, ObjNested, ObjEmpty, ObjBraceInString, ObjOpenBraceInString,
     ObjBracketInString, ObjBacktickInString, ObjFenceInString}

\* fragments that are no objects, or no JSON at all
ArrOfObject == [toks |-> <<"[", "{">> \o Q("a") \o <<":", "1", "}", "]">>,
                val |-> ListV(<<DictV([a |-> IntV(1)])>>)]
ArrSimple == [toks |-> <<"[", "1", ",", "2", "]">>, val |-> ListV(<<IntV(1), IntV(2)>>)]
BadObject == [toks |-> <<"{", "bad", "}">>, val |-> NoneV]
BadArray == [toks |-> <<"[", "bad", "]">>, val |-> NoneV]
BadObjectWithArray == [toks |-> <<"{", "bad", " ", "[", "3", "]", "}">>, val |-> NoneV]
BareNumber == [toks |-> <<"5">>, val |-> IntV(5)]
BareString == [toks |-> Q("{"), val |-> StrV("{")]
NoFragment == [toks |-> <<"nothing">>, val |-> NoneV]

OtherFragments ==
    {ArrOfObject, ArrSimple, BadObject, BadArray, BadObjectWithArray, BareNumber,
     BareString, NoFragment}

\* what may follow the embedded fragment
TextSuffixes ==
    {<<>>,
     <<" ", "done">>,
     <<"\n">> \o Fence,
     <<" ", "or", " ", "}">>,
     <<" ", "[", "2", "]">>,
     <<" ", "{">> \o Q("b") \o <<":", "2", "}">>}

\* the texts the extractor is applied to, with their parts
ExtractTexts ==
    {[prefix |-> pre, body |-> b, suffix |-> suf] :
        pre \in TextPrefixes, b \in JsonObjects \cup OtherFragments,
        suf \in TextSuffixes}

RawText(x) == x.prefix \o x.body.toks \o x.suffix

InitExtract ==
    /\ maxSize = MAX_CHAT_HISTORY_SIZE
    /\ faulty = {}
    /\ InitRequests
    /\ vin \in ExtractTexts
    /\ vout = <<>>

\* safe_extract_json is applied to the text; its parts are kept with what it
\* returned
Extract ==
    /\ vout = <<>>
    /\ vout' = [text |-> Unfence(RawText(vin)),
                objects |-> _find_json_objects(Unfence(RawText(vin))),
                arrays |-> _find_json_arrays(Unfence(RawText(vin))),
                result |-> safe_extract_json(RawText(vin))]
    /\ UNCHANGED <<maxSize, faulty, pc, payload, st, active, trace, sent, llmOutcome,
                   before, session, out, resp, store, vin>>

NextExtract == Extract

SpecExtract == InitExtract /\ [][NextExtract]_vars

(***************************************************************************)
(* application/tools/schema_diff_tool.py: SchemaDiffTool._run.  A DDL      *)
(* statement is the sequence of its pieces, so that a substring test is a  *)
(* test on the pieces.  order is the order in which this process iterates  *)
(* a set of statements; Python leaves it to the hashes of the strings.     *)
(***************************************************************************)
\* set(xs)
SetOf(xs) == {xs[i] : i \in DOMAIN xs}

\* "word" in ddl
HasWord(ddl, word) == \E i \in DOMAIN ddl : ddl[i] = word

\* for ddl in a_set: the elements of a_set in the order of iteration
RECURSIVE Iterate(_, _)
Iterate(a_set, order) ==
    IF order = <<>> THEN <<>>
    ELSE (IF Head(order) \in a_set THEN <<Head(order)>> ELSE <<>>)
         \o Iterate(a_set, Tail(order))

\* "\n".join(lines)
RECURSIVE JoinLines(_)
JoinLines(lines) ==
    IF lines = <<>> THEN <<>>
    ELSE IF Len(lines) = 1 THEN lines[1]
    ELSE lines[1] \o <<"\n">> \o JoinLines(Tail(lines))

\* the text _run builds from added, removed and unchanged, with the three
\* sets and the list of breaking changes it was built from
DiffReport(added, removed, unchanged, order) ==
    LET migrations ==
            [i \in 1..Cardinality(added) |->
                <<"-- Add", "\n">> \o Iterate(added, order)[i]]
            \o [i \in 1..Cardinality(removed) |->
                <<"-- Remove", "\n">> \o Iterate(removed, order)[i]]
        breaking ==
            SelectSeq(Iterate(removed, order),
                      LAMBDA ddl : HasWord(ddl, "DROP") \/ HasWord(ddl, "ALTER"))
        result ==
            << <<"=== SCHEMA DIFF ===">>,
               <<"Added: ", IntToStr(Cardinality(added))>>,
               <<"Removed: ", IntToStr(Cardinality(removed))>>,
               <<"Unchanged: ", IntToStr(Cardinality(unchanged))>> >>
            \o (IF migrations # <<>>
                THEN << <<"\n", "-- Migrations:">> >> \o migrations ELSE <<>>)
            \o (IF breaking # <<>>
                THEN << <<"\n", "-- Breaking changes:">> >> \o breaking ELSE <<>>)
    IN [added |-> added, removed |-> removed, unchanged |-> unchanged,
        migrations |-> migrations, breaking |-> breaking,
        text |-> JoinLines(result)]

\* variant: every statement of either schema is reported as unchanged
_run_unchanged_all(current_schema, proposed_schema, order) ==
    LET current_set == SetOf(current_schema)
        proposed_set == SetOf(proposed_schema)
    IN DiffReport(proposed_set \ current_set, current_set \ proposed_set,
                  current_set \cup proposed_set, order)

\* variant: every statement of the proposed schema is reported as added
_run_added_all(current_schema, proposed_schema, order) ==
    LET current_set == SetOf(current_schema)
        proposed_set == SetOf(proposed_schema)
    IN DiffReport(proposed_set, current_set \ proposed_set,
                  current_set \cap proposed_set, order)

\* variant: every removed statement is listed as a breaking change
_run_all_breaking(current_schema, proposed_schema, order) ==
    LET current_set == SetOf(current_schema)
        proposed_set == SetOf(proposed_schema)
        report == DiffReport(proposed_set \ current_set, current_set \ proposed_set,
                             current_set \cap proposed_set, order)
    IN [report EXCEPT !.breaking = Iterate(current_set \ proposed_set, order)]

_run(current_schema, proposed_schema, order) ==
    LET current_set == SetOf(current_schema)
        proposed_set == SetOf(proposed_schema)
        added == proposed_set \ current_set
        removed == current_set \ proposed_set
        unchanged == current_set \cap proposed_set
    IN DiffReport(added, removed, unchanged, order)

(***************************************************************************)
(* SchemaDiffTool._run alone: vin is a current schema, a proposed schema   *)
(* and an order of iteration; vout holds the report of the diff and the    *)
(* report of the diff with the two schemas exchanged.                      *)
(***************************************************************************)
CreateTable == <<"CREATE", " ", "TABLE", " ", "t1">>
CreateTableLower == <<"create", " ", "table", " ", "t1">>
DropTable == <<"DROP", " ", "TABLE", " ", "t2">>
AlterTable == <<"ALTER", " ", "TABLE", " ", "t1", " ", "ADD", " ", "c">>

DiffStatements == {CreateTable, CreateTableLower, DropTable, AlterTable}

\* the DDL lists: of up to MaxDdlLen statements, repeated ones included
DdlLists == UNION {[1..n -> DiffStatements] : n \in 0..MaxDdlLen}

\* the orders of iteration: every arrangement of the statements
IterationOrders ==
    {o \in [1..Cardinality(DiffStatements) -> DiffStatements] :
        SetOf(o) = DiffStatements}

InitDiff ==
    /\ maxSize = MAX_CHAT_HISTORY_SIZE
    /\ faulty = {}
    /\ InitRequests
    /\ vin \in [current_schema : DdlLists, proposed_schema : DdlLists,
                order : IterationOrders]
    /\ vout = <<>>

Diff ==
    /\ vout = <<>>
    /\ vout' = [diff |-> _run(vin.current_schema, vin.proposed_schema, vin.order),
                back |-> _run(vin.proposed_schema, vin.current_schema, vin.order)]
    /\ UNCHANGED <<maxSize, faulty, pc, payload, st, active, trace, sent,
                   llmOutcome, before, session, out, resp, store, vin>>

NextDiff == Diff

SpecDiff == InitDiff /\ [][NextDiff]_vars

(***************************************************************************)
(* application/tools/performance_analyzer.py.  A priority score is kept as *)
(* the pair of numbers it is computed from: [time |-> t, runs |-> n]       *)
(* stands for the float (t * (n ** 0.7)) / 1000, and NoScore for 0.0.      *)
(***************************************************************************)
NoScore == [time |-> 0, runs |-> 1]

\* variant: the score is computed without the test for metrics that are not
\* positive
_calculate_priority_score_unguarded(execution_time, run_quantity) ==
    [time |-> execution_time, runs |-> run_quantity]

_calculate_priority_score(execution_time, run_quantity) ==
    IF execution_time <= 0 \/ run_quantity <= 0
    THEN NoScore
    ELSE [time |-> execution_time, runs |-> run_quantity]

(***************************************************************************)
(* _calculate_priority_score alone: vin holds the metrics of a query, a    *)
(* second execution time and a second run quantity; vout the score of the  *)
(* query and the scores with either metric replaced by the second one.     *)
(***************************************************************************)
MetricValues == -1..MaxMetric

InitScore ==
    /\ maxSize = MAX_CHAT_HISTORY_SIZE
    /\ faulty = {}
    /\ InitRequests
    /\ vin \in [execution_time : MetricValues, run_quantity : MetricValues,
                other_time : MetricValues, other_quantity : MetricValues]
    /\ vout = <<>>

Score ==
    /\ vout = <<>>
    /\ vout' = [score |-> _calculate_priority_score(vin.execution_time,
                                                    vin.run_quantity),
                other_time |-> _calculate_priority_score(vin.other_time,
                                                         vin.run_quantity),
                other_quantity |-> _calculate_priority_score(vin.execution_time,
                                                             vin.other_quantity)]
    /\ UNCHANGED <<maxSize, faulty, pc, payload, st, active, trace, sent,
                   llmOutcome, before, session, out, resp, store, vin>>

NextScore == Score

SpecScore == InitScore /\ [][NextScore]_vars

(***************************************************************************)
(* performance_analyzer.py: the patterns of a query and the                *)
(* recommendations for it.  A query is the sequence of its pieces: words,  *)
(* blanks, line ends and signs.  Of a PerformanceRecommendation the model  *)
(* keeps query_id, issue_type and impact; its two texts are fixed by the   *)
(* issue_type.                                                             *)
(***************************************************************************)
QueryMetrics(query_id, query, execution_time, run_quantity, total_time, priority_score) ==
    [query_id |-> query_id, query |-> query, execution_time |-> execution_time,
     run_quantity |-> run_quantity, total_time |-> total_time,
     priority_score |-> priority_score]

PerformanceRecommendation(query_id, issue_type, impact) ==
    [query_id |-> query_id, issue_type |-> issue_type, impact |-> impact]

\* query.upper(), piece by piece
UpperWord(w) ==
    CASE w = "select" -> "SELECT" [] w = "from" -> "FROM" [] w = "where" -> "WHERE"
      [] w = "limit" -> "LIMIT" [] w = "join" -> "JOIN" [] w = "left" -> "LEFT"
      [] w = "inner" -> "INNER" [] w = "distinct" -> "DISTINCT"
      [] w = "order" -> "ORDER" [] w = "group" -> "GROUP" [] w = "by" -> "BY"
      [] w = "upper" -> "UPPER" [] w = "count" -> "COUNT" [] w = "on" -> "ON"
      [] w = "update" -> "UPDATE" [] w = "set" -> "SET"
      [] w = "a" -> "A" [] w = "b" -> "B"
      [] w = "t1" -> "T1" [] w = "t2" -> "T2" [] w = "t3" -> "T3" [] w = "t4" -> "T4"
      [] OTHER -> w
Upper(query) == [i \in DOMAIN query |-> UpperWord(query[i])]

\* "word" in text, "first second" in text
InText(text, word) == \E i \in DOMAIN text : text[i] = word
InText2(text, first, second) ==
    \E i \in DOMAIN text :
        At(text, i) = first /\ At(text, i + 1) = " " /\ At(text, i + 2) = second

\* the . of a pattern matches no line end: none lies from i to j
NoLineEnd(text, i, j) == \A k \in i..j : At(text, k) # "\n"

\* re.search(r"WHERE.*\b(?:UPPER|LOWER|SUBSTRING|CONCAT)\s*\(", text)
FunctionAfterWhere(text) ==
    \E i, j \in DOMAIN text :
        /\ i < j
        /\ text[i] = "WHERE"
        /\ NoLineEnd(text, i + 1, j - 1)
        /\ text[j] \in {"UPPER", "LOWER", "SUBSTRING", "CONCAT"}
        /\ At(text, SkipWs(text, j + 1)) = "("

\* re.search(r"SELECT.*\(\s*SELECT", text)
SelectInSelect(text) ==
    \E i, j \in DOMAIN text :
        /\ i < j
        /\ text[i] = "SELECT"
        /\ NoLineEnd(text, i + 1, j - 1)
        /\ text[j] = "("
        /\ At(text, SkipWs(text, j + 1)) = "SELECT"

\* re.search(r"\b(?:COUNT|SUM|AVG|MAX|MIN)\s*\(.*\)", text)
AggregateCall(text) ==
    \E i, j \in DOMAIN text :
        /\ text[i] \in {"COUNT", "SUM", "AVG", "MAX", "MIN"}
        /\ At(text, SkipWs(text, i + 1)) = "("
        /\ SkipWs(text, i + 1) < j
        /\ NoLineEnd(text, SkipWs(text, i + 1) + 1, j - 1)
        /\ text[j] = ")"

\* len(re.findall(r"\b(?:INNER|LEFT|RIGHT|OUTER)?\s*JOIN\b", text))
JoinCount(text) == Cardinality({i \in DOMAIN text : text[i] = "JOIN"})

_analyze_query_patterns(query) ==
    LET query_upper == Upper(query)
        When(found, issue) == IF found THEN <<issue>> ELSE <<>>
    IN When(/\ InText(query_upper, "SELECT")
            /\ ~InText(query_upper, "WHERE")
            /\ ~InText(query_upper, "LIMIT"), "full_table_scan")
       \o When(JoinCount(query_upper) >= 3, "complex_joins")
       \o When(FunctionAfterWhere(query_upper), "functions_in_where")
       \o When(SelectInSelect(query_upper), "subquery_in_select")
       \o When(/\ InText(query_upper, "DISTINCT")
               /\ ~InText2(query_upper, "ORDER", "BY"), "unordered_distinct")
       \o When(/\ AggregateCall(query_upper)
               /\ ~InText2(query_upper, "GROUP", "BY"), "aggregation_without_grouping")

\* the recommendation for the execution time, if any
ExecutionTimeRule(metrics) ==
    IF metrics.execution_time > 5000
    THEN <<PerformanceRecommendation(metrics.query_id, "slow_execution", "high")>>
    ELSE IF metrics.execution_time > 1000
    THEN <<PerformanceRecommendation(metrics.query_id, "moderate_execution", "medium")>>
    ELSE <<>>

\* the recommendation for the run quantity, if any
RunQuantityRule(metrics) ==
    IF metrics.run_quantity > 10000
    THEN <<PerformanceRecommendation(metrics.query_id, "high_frequency", "high")>>
    ELSE <<>>

\* for issue in issues: the recommendations for the issues from the i-th on
RECURSIVE IssueRules(_, _, _)
IssueRules(metrics, issues, i) ==
    IF i > Len(issues) THEN <<>>
    ELSE (CASE issues[i] = "full_table_scan" ->
                 <<PerformanceRecommendation(metrics.query_id, "full_table_scan", "high")>>
            [] issues[i] = "complex_joins" ->
                 <<PerformanceRecommendation(metrics.query_id, "complex_joins", "high")>>
            [] issues[i] = "functions_in_where" ->
                 <<PerformanceRecommendation(metrics.query_id, "functions_in_where", "medium")>>
            [] issues[i] = "subquery_in_select" ->
                 <<PerformanceRecommendation(metrics.query_id, "subquery_in_select", "medium")>>
            [] OTHER -> <<>>)
         \o IssueRules(metrics, issues, i + 1)

\* variant: only the first rule that matches gives a recommendation
_generate_recommendations_first_match(metrics, issues) ==
    LET all == ExecutionTimeRule(metrics) \o RunQuantityRule(metrics)
               \o IssueRules(metrics, issues, 1)
    IN IF all = <<>> THEN <<>> ELSE <<Head(all)>>

_generate_recommendations(metrics, issues) ==
    ExecutionTimeRule(metrics) \o RunQuantityRule(metrics)
    \o IssueRules(metrics, issues, 1)

(***************************************************************************)
(* The two functions applied to one query, as _run applies them: vin is a  *)
(* query with its metrics, vout its issues and its recommendations.        *)
(***************************************************************************)
ExecutionTimes == {0, 1000, 1001, 5000, 5001, 6000}
RunQuantities == {1, 10000, 10001, 20000}

QScan == <<"select", " ", "a", " ", "from", " ", "t1">>
QWhere == QScan \o <<" ", "where", " ", "a", " ", "=", " ", "1">>
QLimit == <<"SELECT", " ", "a", " ", "FROM", " ", "t1", " ", "LIMIT", " ", "5">>
QJoins ==
    <<"select", " ", "a", " ", "from", " ", "t1", " ", "join", " ", "t2", " ", "on",
      " ", "a", "\n", "left", " ", "join", " ", "t3", " ", "on", " ", "b", "\n",
      "inner", " ", "join", " ", "t4", " ", "on", " ", "a", " ", "limit", " ", "5">>
QFunction == QScan \o <<" ", "where", " ", "upper", "(", "a", ")", " ", "=", " ", "b">>
QFunctionNextLine ==
    QScan \o <<" ", "where", " ", "b", "\n", "=", " ", "upper", " ", "(", "a", ")">>
QSubquery ==
    <<"select", " ", "(", " ", "select", " ", "1", ")", " ", "from", " ", "t1",
      " ", "limit", " ", "5">>
QDistinct == <<"select", " ", "distinct", " ", "a", " ", "from", " ", "t1", " ",
               "where", " ", "a", " ", "=", " ", "1">>
QAggregate == <<"select", " ", "count", "(", "a", ")", " ", "from", " ", "t1", " ",
                "where", " ", "a", " ", "=", " ", "1">>
QEverything ==
    <<"select", " ", "distinct", " ", "count", "(", "a", ")", ",", " ", "(", "select",
      " ", "1", ")", " ", "from", " ", "t1", " ", "join", " ", "t2", " ", "join", " ",
      "t3", " ", "join", " ", "t4">>
QUpdate == <<"update", " ", "t1", " ", "set", " ", "a", " ", "=", " ", "1">>

AnalyzedQueries ==
    {QScan, QWhere, QLimit, QJoins, QFunction, QFunctionNextLine, QSubquery,
     QDistinct, QAggregate, QEverything, QUpdate}

InitRecommend ==
    /\ maxSize = MAX_CHAT_HISTORY_SIZE
    /\ faulty = {}
    /\ InitRequests
    /\ vin \in [query_id : {"q1"}, query : AnalyzedQueries,
                execution_time : ExecutionTimes, run_quantity : RunQuantities]
    /\ vout = <<>>

Recommend ==
    /\ vout = <<>>
    /\ LET metrics == QueryMetrics(vin.query_id, vin.query, vin.execution_time,
                                   vin.run_quantity,
                                   vin.execution_time * vin.run_quantity,
                                   _calculate_priority_score(vin.execution_time,
                                                             vin.run_quantity))
           issues == _analyze_query_patterns(metrics.query)
       IN vout' = [issues |-> issues,
                   recommendations |-> _generate_recommendations(metrics, issues)]
    /\ UNCHANGED <<maxSize, faulty, pc, payload, st, active, trace, sent,
                   llmOutcome, before, session, out, resp, store, vin>>

NextRecommend == Recommend

SpecRecommend == InitRecommend /\ [][NextRecommend]_vars

(***************************************************************************)
(* application/tools/data_lineage_tool.py.  The graph is a dict: the model *)
(* keeps it as the sequence of its items [table, deps] in the order of     *)
(* insertion.  order is the order in which this process iterates a set.    *)
(***************************************************************************)
\* a piece that [\w\.]+ matches
IsName(piece) ==
    piece \notin {" ", "\n", "(", ")", ",", "=", "*", "<end>"}

\* re.findall(keyword + r"\s+([\w\.]+)", query, re.IGNORECASE), from piece i on
RECURSIVE FindAfter(_, _, _)
FindAfter(query, keyword, i) ==
    IF i > Len(query) THEN <<>>
    ELSE IF /\ UpperWord(query[i]) = keyword
            /\ SkipWs(query, i + 1) > i + 1
            /\ IsName(At(query, SkipWs(query, i + 1)))
    THEN <<query[SkipWs(query, i + 1)]>> \o FindAfter(query, keyword, SkipWs(query, i + 1) + 1)
    ELSE FindAfter(query, keyword, i + 1)

_extract_tables(query, order) ==
    LET tables == FindAfter(query, "FROM", 1) \o FindAfter(query, "JOIN", 1)
    IN Iterate(SetOf(tables), order)

\* the keys of the graph
GraphKeys(graph) == {graph[i].table : i \in DOMAIN graph}

\* lines 43-48 for one table t: its key is made if missing, and the tables
\* after JOIN are added to its set
AddTable(graph, t, join_tables) ==
    LET g == IF t \in GraphKeys(graph) THEN graph
             ELSE Append(graph, [table |-> t, deps |-> {}])
    IN [i \in DOMAIN g |->
            IF g[i].table = t
            THEN [table |-> t, deps |-> g[i].deps \cup SetOf(join_tables)]
            ELSE g[i]]

\* for t in tables, from the i-th on
RECURSIVE AddTables(_, _, _, _)
AddTables(graph, tables, i, join_tables) ==
    IF i > Len(tables) THEN graph
    ELSE AddTables(AddTable(graph, tables[i], join_tables), tables, i + 1, join_tables)

\* for q in queries, from the i-th on
RECURSIVE BuildGraph(_, _, _, _)
BuildGraph(graph, queries, i, order) ==
    IF i > Len(queries) THEN graph
    ELSE BuildGraph(AddTables(graph, _extract_tables(queries[i], order), 1,
                              FindAfter(queries[i], "JOIN", 1)),
                    queries, i + 1, order)

\* sorted(items, key=lambda x: len(x[1]), reverse=True): the sort is stable,
\* items with as many deps keep their order
RECURSIVE SortByDeps(_)
SortByDeps(items) ==
    IF items = <<>> THEN <<>>
    ELSE LET most == CHOOSE i \in DOMAIN items :
                        /\ \A j \in DOMAIN items :
                              Cardinality(items[j].deps) <= Cardinality(items[i].deps)
                        /\ \A j \in 1..(i - 1) :
                              Cardinality(items[j].deps) < Cardinality(items[i].deps)
         IN <<items[most]>>
            \o SortByDeps(SubSeq(items, 1, most - 1) \o SubSeq(items, most + 1, Len(items)))

\* ", ".join(deps)
RECURSIVE JoinComma(_)
JoinComma(names) ==
    IF names = <<>> THEN <<>>
    ELSE IF Len(names) = 1 THEN names
    ELSE <<names[1], ", ">> \o JoinComma(Tail(names))

\* DataLineageTool._run: the graph it builds and the text it returns
DataLineageTool_run(queries, order) ==
    LET graph == BuildGraph(<<>>, queries, 1, order)
        critical == SortByDeps(graph)
        result ==
            << <<"=== TABLE DEPENDENCY GRAPH ===">> >>
            \o [i \in DOMAIN graph |->
                   <<graph[i].table, " -> ">>
                   \o (IF graph[i].deps # {}
                       THEN JoinComma(Iterate(graph[i].deps, order))
                       ELSE <<"no dependencies">>)]
            \o (IF critical # <<>>
                THEN << <<"\n", "-- Critical tables:">> >>
                     \o [i \in 1..(IF Len(critical) < 3 THEN Len(critical) ELSE 3) |->
                            <<critical[i].table, ": ",
                              IntToStr(Cardinality(critical[i].deps)), " dependencies">>]
                ELSE <<>>)
    IN [graph |-> graph, text |-> JoinLines(result)]

(***************************************************************************)
(* DataLineageTool._run alone: vin is a list of queries and an order of    *)
(* iteration, vout what _run built.                                        *)
(***************************************************************************)
LJoin == <<"select", " ", "*", " ", "from", " ", "t1", " ", "join", " ", "t2",
           " ", "on", " ", "a">>
LJoinOther == <<"SELECT", " ", "*", " ", "FROM", " ", "t1", "\n", "JOIN", " ", "t3",
                " ", "ON", " ", "a">>
LPlain == <<"select", " ", "*", " ", "from", " ", "t2">>
LJoinTwice == <<"select", " ", "*", " ", "from", " ", "t3", " ", "join", " ", "t2",
                " ", "on", " ", "a", " ", "join", " ", "t2", " ", "on", " ", "b">>
LUpdate == <<"update", " ", "t1", " ", "set", " ", "a", " ", "=", " ", "1">>

LineageQueries == {LJoin, LJoinOther, LPlain, LJoinTwice, LUpdate}

LineageTables == {"t1", "t2", "t3"}

LineageOrders ==
    {o \in [1..Cardinality(LineageTables) -> LineageTables] : SetOf(o) = LineageTables}

InitLineage ==
    /\ maxSize = MAX_CHAT_HISTORY_SIZE
    /\ faulty = {}
    /\ InitRequests
    /\ vin \in [queries : UNION {[1..n -> LineageQueries] : n \in 0..MaxLineageQueries},
                order : LineageOrders]
    /\ vout = <<>>

Lineage ==
    /\ vout = <<>>
    /\ vout' = DataLineageTool_run(vin.queries, vin.order)
    /\ UNCHANGED <<maxSize, faulty, pc, payload, st, active, trace, sent,
                   llmOutcome, before, session, out, resp, store, vin>>

NextLineage == Lineage

SpecLineage == InitLineage /\ [][NextLineage]_vars

(***************************************************************************)
(* The schema probe of _validate_schema_node with the TrinoMCPClient it    *)
(* uses (application/clients/trino_mcp_http_client.py), step by step and   *)
(* with a clock in seconds.  vin is the situation: whether the calling     *)
(* thread has a running event loop, and what the MCP server does with the  *)
(* initialize request, with the notification and with each of the three    *)
(* tool calls.  vout is the run: main is the thread of the node ("future": *)
(* in future.result, "run": in its own asyncio.run, "shutdown": leaving    *)
(* the with block of the executor, "done"), co the place of the coroutine  *)
(* get_schema_info, wire the requests sent so far.                         *)
(***************************************************************************)
\* future.result(timeout=30.0)
FUTURE_TIMEOUT == 30
\* aiohttp.ClientTimeout(total=30) of a tool call
TOOL_CALL_TIMEOUT == 30
\* the total timeout of a request of aiohttp.ClientSession() when none is given
SESSION_TIMEOUT == 300

SessionId == "sid-1"

InitializeReplies ==
    {"json", "sse", "sse_unreadable", "status_not_200", "no_session_id",
     "other_content_type", "silent"}
NotificationReplies == {"ok", "status_not_200", "silent"}
ToolReplies == {"ok", "error", "silent"}

\* get_connection_status, list_catalogs, execute_query
ProbeTools == <<"connection_status_tool", "list_catalogs_tool", "execute_query_tool">>
ProbeSections == <<"=== CONNECTION STATUS ===", "=== CATALOGS ===", "=== CONNECTION TEST ===">>

ProbeSituations ==
    [loop : BOOLEAN, initialize : InitializeReplies,
     notification : NotificationReplies, tools : [DOMAIN ProbeTools -> ToolReplies]]

Request(method, tool, session_id) ==
    [method |-> method, tool |-> tool, session_id |-> session_id]

\* variant: a request is made whether or not there is a session id
InitializedAlways(client) == TRUE

\* the test at the head of _make_mcp_request
Initialized(client) == client.session /\ client.session_id # NoneV

InitProbe ==
    /\ maxSize = MAX_CHAT_HISTORY_SIZE
    /\ faulty = {}
    /\ InitRequests
    /\ vin \in ProbeSituations
    /\ vout = [main |-> IF vin.loop THEN "future" ELSE "run",
               co |-> "start", session |-> FALSE, session_id |-> NoneV,
               wire |-> <<>>, call |-> 1, schema_info |-> <<>>,
               clock |-> 0, deadline |-> 0, state_schema_info |-> NoneV]

ProbeFrame ==
    UNCHANGED <<maxSize, faulty, pc, payload, st, active, trace, sent,
                llmOutcome, before, session, out, resp, store, vin>>

\* __aenter__: the session is made and the initialize request is sent
Enter ==
    /\ vout.co = "start"
    /\ vout' = [vout EXCEPT !.session = TRUE,
                            !.wire = Append(@, Request("initialize", NoneV, NoneV)),
                            !.co = "init_wait",
                            !.deadline = vout.clock + SESSION_TIMEOUT]
    /\ ProbeFrame

\* _initialize_mcp_session from the answer to the initialize request on
InitializeReply ==
    /\ vout.co = "init_wait"
    /\ vin.initialize # "silent"
    /\ vout' =
         CASE vin.initialize = "status_not_200" -> [vout EXCEPT !.co = "entered"]
           [] vin.initialize = "no_session_id" -> [vout EXCEPT !.co = "raised"]
           [] vin.initialize \in {"other_content_type", "sse_unreadable"} ->
                [vout EXCEPT !.session_id = StrV(SessionId), !.co = "raised"]
           [] OTHER ->
                [vout EXCEPT !.session_id = StrV(SessionId),
                             !.wire = Append(@, Request("notifications/initialized",
                                                       NoneV, StrV(SessionId))),
                             !.co = "notify_wait",
                             !.deadline = vout.clock + SESSION_TIMEOUT]
    /\ ProbeFrame

\* _send_notification from the answer on: a status other than 200 is logged
NotificationReply ==
    /\ vout.co = "notify_wait"
    /\ vin.notification # "silent"
    /\ vout' = [vout EXCEPT !.co = "entered"]
    /\ ProbeFrame

\* the next call of get_schema_info, through _make_mcp_request: without a
\* session id it raises before anything is sent, and get_schema_info notes
\* the error and leaves its try block
ToolCall ==
    /\ vout.co = "entered"
    /\ vout' =
         IF Initialized(vout)
         THEN [vout EXCEPT !.wire = Append(@, Request("tools/call", ProbeTools[vout.call],
                                                     vout.session_id)),
                           !.co = "call_wait",
                           !.deadline = vout.clock + TOOL_CALL_TIMEOUT]
         ELSE [vout EXCEPT !.schema_info = Append(@, "=== MCP ERROR ==="),
                           !.co = "exiting"]
    /\ ProbeFrame

\* _make_mcp_request from the answer on
ToolReply ==
    /\ vout.co = "call_wait"
    /\ vin.tools[vout.call] # "silent"
    /\ vout' =
         IF vin.tools[vout.call] = "error"
         THEN [vout EXCEPT !.schema_info = Append(@, "=== MCP ERROR ==="),
                           !.co = "exiting"]
         ELSE [vout EXCEPT !.schema_info = Append(@, ProbeSections[vout.call]),
                           !.co = IF vout.call = Len(ProbeTools) THEN "exiting"
                                  ELSE "entered",
                           !.call = IF vout.call = Len(ProbeTools) THEN @ ELSE @ + 1]
    /\ ProbeFrame

\* the server is silent on the request the coroutine waits for
Silent ==
    \/ vout.co = "init_wait" /\ vin.initialize = "silent"
    \/ vout.co = "notify_wait" /\ vin.notification = "silent"
    \/ vout.co = "call_wait" /\ vin.tools[vout.call] = "silent"

\* the total timeout of the request expires: asyncio.TimeoutError
HttpTimeout ==
    /\ Silent
    /\ vout.clock >= vout.deadline
    /\ vout' =
         IF vout.co = "call_wait"
         THEN [vout EXCEPT !.schema_info = Append(@, "=== MCP ERROR ==="),
                           !.co = "exiting"]
         ELSE [vout EXCEPT !.co = "raised"]
    /\ ProbeFrame

\* __aexit__
Exit ==
    /\ vout.co = "exiting"
    /\ vout' = [vout EXCEPT !.session = FALSE, !.co = "closed"]
    /\ ProbeFrame

\* future.result(timeout=30.0) raises TimeoutError; the with block of the
\* executor is left through shutdown(wait=True), which waits for the worker
FutureTimeout ==
    /\ vout.main = "future"
    /\ vout.co \notin {"closed", "raised"}
    /\ vout.clock >= FUTURE_TIMEOUT
    /\ vout' = [vout EXCEPT !.main = "shutdown"]
    /\ ProbeFrame

\* the moments at which a timeout that is running expires
Deadlines ==
    (IF Silent THEN {vout.deadline} ELSE {})
    \cup (IF vout.main = "future" THEN {FUTURE_TIMEOUT} ELSE {})

\* time passes while the coroutine waits for a silent server, up to the next
\* moment a timeout expires
Elapse ==
    /\ Silent
    /\ \A d \in Deadlines : d > vout.clock
    /\ vout' = [vout EXCEPT !.clock = CHOOSE d \in Deadlines : \A e \in Deadlines : d <= e]
    /\ ProbeFrame

\* the coroutine has ended: lines 115-126 of _validate_schema_node
Finish ==
    /\ vout.main # "done"
    /\ vout.co \in {"closed", "raised"}
    /\ vout' = [vout EXCEPT
                  !.main = "done",
                  !.state_schema_info =
                      IF vout.main = "shutdown" \/ vout.co = "raised"
                      THEN StrV("Error connecting to the database via MCP HTTP: ")
                      ELSE IF vout.schema_info # <<>> THEN ListV(vout.schema_info)
                      ELSE StrV("MCP HTTP client created, no schema information")]
    /\ ProbeFrame

NextProbe ==
    \/ Enter \/ InitializeReply \/ NotificationReply \/ ToolCall \/ ToolReply
    \/ HttpTimeout \/ Exit \/ FutureTimeout \/ Elapse \/ Finish

SpecProbe == InitProbe /\ [][NextProbe]_vars

(***************************************************************************)
(* Properties.                                                             *)
(***************************************************************************)
\* the stages in the order of the graph, input validation first
StageOrder ==
    <<"parse_and_validate", "validate_schema", "analyze_performance",
      "analyze_lineage", "compose_prompt", "call_llm", "parse_response",
      "validate_changes">>

IsPrefix(s, t) == Len(s) <= Len(t) /\ s = SubSeq(t, 1, Len(s))

Last(xs) == xs[Len(xs)]

Min(a, b) == IF a <= b THEN a ELSE b

\* a result that carries an error
IsError(result) == result.t = "dict" /\ "error" \in DOMAIN result.d

\* chat_history of a state
HistoryOf(state) == IF "chat_history" \in DOMAIN state THEN state.chat_history ELSE <<>>

Blank(v) == v.t = "str" /\ v.s \in WhitespaceOnly

\* the request p is one the validator has to reject: a key is missing, a value
\* has the wrong type, a list is empty, a statement, a query_id or a query is
\* blank, or two queries carry one query_id
InvalidRequest(p) ==
    \/ ~({"url", "ddl", "queries"} \subseteq DOMAIN p)
    \/ p.url.t # "str" \/ p.ddl.t # "list" \/ p.queries.t # "list"
    \/ p.ddl.items = <<>> \/ p.queries.items = <<>>
    \/ \E i \in DOMAIN p.ddl.items :
          LET item == p.ddl.items[i] IN
          Blank(IF item.t = "dict" THEN Get(item.d, "statement") ELSE item)
    \/ \E i \in DOMAIN p.queries.items :
          LET item == p.queries.items[i] IN
          item.t = "dict" /\ (Blank(Get(item.d, "query_id")) \/ Blank(Get(item.d, "query")))
    \/ \E i, j \in DOMAIN p.queries.items :
          /\ i # j
          /\ p.queries.items[i].t = "dict" /\ p.queries.items[j].t = "dict"
          /\ PyStr(Get(p.queries.items[i].d, "query_id"))
                = PyStr(Get(p.queries.items[j].d, "query_id"))

\* C1: in every run the stages execute strictly in the order validation,
\* performance analysis, lineage analysis, prompt composition, provider call,
\* response parsing, change validation, done: the stages that have run are
\* always a prefix of that order (none runs twice, none before its
\* predecessor), at most one stage of a request is scheduled at a time and it
\* is the next one of the order, and a request is done without an error only
\* after all of them.
C1_StagesInOrder ==
    \A r \in Reqs :
        /\ IsPrefix(trace[r], StageOrder)
        /\ Cardinality(active[r]) <= 1
        /\ \A n \in active[r] :
              Len(trace[r]) < Len(StageOrder) /\ n = StageOrder[Len(trace[r]) + 1]
        /\ (pc[r] = "done" /\ ~IsError(out[r])) => trace[r] = StageOrder

C1_Witness ==
    \E r \in Reqs : pc[r] = "done" /\ trace[r] = StageOrder /\ ~IsError(out[r])

\* C2: when the input validation fails (missing key, wrong type, empty DDL or
\* query list, blank statement, blank or duplicate query_id, blank query) the
\* request is answered at once with an error result, reported as
\* success = false: no stage of the workflow has run for it, nothing was sent
\* to the provider, and the step that rejects it writes no state and no
\* checkpoint, so no chat_history entry.
C2_InvalidRequestStopsAtValidation ==
    /\ [](\A r \in Reqs :
            (pc[r] # "idle" /\ InvalidRequest(payload[r])) =>
                /\ pc[r] = "done"
                /\ IsError(out[r])
                /\ ~resp[r].success
                /\ trace[r] = <<"parse_and_validate">>
                /\ active[r] = {}
                /\ st[r] = <<>>
                /\ sent[r] = <<>>)
    /\ [][\A r \in Reqs :
            (pc[r] = "idle" /\ pc'[r] # "idle" /\ InvalidRequest(payload'[r])) =>
                (store' = store /\ st' = st /\ sent' = sent)]_vars

\* a rejected request on a thread whose checkpoint holds the turns of another
\* request
C2_Witness ==
    \E r \in Reqs :
        /\ pc[r] = "done"
        /\ InvalidRequest(payload[r])
        /\ IsError(out[r])
        /\ HistoryOf(store[ThreadOf(payload[r])]) # <<>>

\* C3: when the call of the reasoning provider fails the run aborts with an
\* error result: call_llm is the last stage that ran (parse_response and
\* validate_changes never run), exactly one call was made, chat_history is
\* what it was before the call (no user turn, no assistant turn), the caller
\* gets a result with an error, reported as success = false, and the failing
\* step writes no state and no checkpoint.
C3_ProviderFailureAborts ==
    /\ [](\A r \in Reqs :
            llmOutcome[r] = "error" =>
                /\ pc[r] = "done"
                /\ active[r] = {}
                /\ trace[r] = SubSeq(StageOrder, 1, 6)
                /\ Len(sent[r]) = 1
                /\ HistoryOf(st[r]) = before[r]
                /\ IsError(out[r])
                /\ ~resp[r].success)
    /\ [][\A r \in Reqs :
            (llmOutcome[r] # "error" /\ llmOutcome'[r] = "error") =>
                (store' = store /\ st' = st)]_vars

C3_Witness ==
    \E r \in Reqs :
        /\ llmOutcome[r] = "error"
        /\ pc[r] = "done"
        /\ Last(trace[r]) = "call_llm"
        /\ ~resp[r].success

\* the diagnostic texts of the stages that degrade
SchemaInfoDiagnostic == StrV("Error connecting to the database via MCP HTTP: ")
PerformanceDiagnostic == StrV("Performance analysis error: ")
LineageDiagnostic == StrV("Lineage analysis error: ")
SchemaDiffDiagnostic == StrV("Change validation error: ")

Ran(r, n) == \E i \in DOMAIN trace[r] : trace[r][i] = n

\* the final diff of r fails inside: the "ddl" of the parsed result is a
\* list of texts, which have no get
DiffFails(r) == Ran(r, "validate_changes") /\ st[r].response = TextV(RespBadDdl)

\* C5: an internal failure of the schema probe, the performance analysis, the
\* lineage analysis or the final diff never aborts the run: the failing stage
\* leaves its diagnostic text in its own field (schema_info,
\* performance_analysis, data_lineage, schema_diff), after it the next stage is
\* scheduled, and a run ends without all stages only at call_llm or
\* parse_response; a run whose diff failed still returns the parsed result.
C5_DegradedStagesContinue ==
    \A r \in Reqs :
        (pc[r] # "idle" /\ ~InvalidRequest(payload[r])) =>
            /\ ("schema_probe" \in faulty /\ Ran(r, "validate_schema"))
                  => Get(st[r], "schema_info") = SchemaInfoDiagnostic
            /\ ("performance" \in faulty /\ Ran(r, "analyze_performance"))
                  => Get(st[r], "performance_analysis") = PerformanceDiagnostic
            /\ ("lineage" \in faulty /\ Ran(r, "analyze_lineage"))
                  => Get(st[r], "data_lineage") = LineageDiagnostic
            /\ DiffFails(r) => Get(st[r], "schema_diff") = SchemaDiffDiagnostic
            /\ (pc[r] = "running" /\ Len(trace[r]) < Len(StageOrder))
                  => active[r] = {StageOrder[Len(trace[r]) + 1]}
            /\ (pc[r] = "running" /\ Len(trace[r]) = Len(StageOrder)) => active[r] = {}
            /\ (pc[r] = "done" /\ Last(trace[r]) \notin {"call_llm", "parse_response"})
                  => (trace[r] = StageOrder /\ out[r] = st[r].result /\ ~IsError(out[r]))

\* a run in which the probe, both analyses and the diff failed, and which
\* returned a result all the same
C5_Witness ==
    \E r \in Reqs :
        /\ faulty = Stages
        /\ pc[r] = "done"
        /\ trace[r] = StageOrder
        /\ DiffFails(r)
        /\ Get(st[r], "schema_diff") = SchemaDiffDiagnostic
        /\ resp[r].success

\* the response of r holds no JSON that can be parsed: parse_response is the
\* stage the run ended at
ParseFailed(r) == pc[r] = "done" /\ Last(trace[r]) = "parse_response"

\* the result carries the text: one of its values is the text, or the string
\* of its characters
CarriesText(result, text) ==
    /\ result.t = "dict"
    /\ \E k \in DOMAIN result.d :
          \/ result.d[k] = text
          \/ result.d[k] = StrV(Cat(text.toks))

\* C4: when the response of the provider yields no JSON that can be parsed,
\* the run stops before validate_changes and returns an error result that
\* contains the raw text of the response.
C4_ParseFailureCarriesRawText ==
    \A r \in Reqs :
        ParseFailed(r) =>
            /\ ~Ran(r, "validate_changes")
            /\ IsError(out[r])
            /\ CarriesText(out[r], st[r].response)

\* C6: after any number of rounds with the provider the length of
\* chat_history never exceeds the configured maximum, the maximum 0 included.
C6_HistoryNeverExceedsMaxSize ==
    /\ \A r \in Reqs : Len(HistoryOf(st[r])) <= maxSize
    /\ \A t \in ThreadIds : Len(HistoryOf(store[t])) <= maxSize

\* the messages between the system message and the prompt
HistoryPart(messages) == SubSeq(messages, 2, Len(messages) - 1)

\* C7: requests that carry one thread identifier share one chat_history: the
\* provider call of a request receives the turns the thread's checkpoint held
\* when the request arrived, and after the call the history holds those turns
\* and the two new ones (up to the maximum); a request on a thread without
\* turns starts with an empty history.
C7_ThreadSharesHistory ==
    \A r \in Reqs :
        /\ sent[r] # <<>> => HistoryPart(sent[r][1]) = HistoryMessages(session[r])
        /\ llmOutcome[r] = "ok" =>
              Len(HistoryOf(st[r])) = Min(maxSize, Len(session[r]) + 2)

\* C8: a successful round appends the user turn with the prompt and then the
\* assistant turn with the response, and the history after it is the suffix
\* of the old history followed by the two turns, of length
\* min(max_size, old length + 2).
C8_RoundAppendsTwoTurns ==
    \A r \in Reqs :
        llmOutcome[r] = "ok" =>
            LET full == before[r] \o <<[role |-> "user", content |-> st[r].prompt],
                                       [role |-> "assistant", content |-> st[r].response]>>
                n == Min(maxSize, Len(before[r]) + 2)
            IN HistoryOf(st[r]) = SubSeq(full, Len(full) - n + 1, Len(full))

\* the query_ids of the queries of the request p
InputQueryIds(p) ==
    {PyStr(p.queries.items[i].d.query_id) : i \in DOMAIN p.queries.items}

\* C9: for a valid request answered with success, every query_id of the
\* queries of the answer is a query_id of the queries of the request.
C9_NoInventedQueryIds ==
    \A r \in Reqs :
        (pc[r] = "done" /\ resp[r].success) =>
            \A i \in DOMAIN resp[r].queries :
                resp[r].queries[i].query_id \in InputQueryIds(payload[r])

\* the structural problems of the payload p: the keys that are missing, the
\* values of the wrong type, the elements that are malformed
StructuralProblems(p) ==
    {<<k, -1>> : k \in {"url", "ddl", "queries"} \ DOMAIN p}
    \cup (IF "url" \in DOMAIN p /\ (p.url.t # "str" \/ p.url.s = "")
          THEN {<<"url", -2>>} ELSE {})
    \cup (IF "ddl" \notin DOMAIN p THEN {}
          ELSE IF p.ddl.t # "list" THEN {<<"ddl", -2>>}
          ELSE {<<"ddl", i>> : i \in {i \in DOMAIN p.ddl.items :
                    LET item == p.ddl.items[i] IN
                    ~(\/ item.t = "str"
                      \/ item.t = "dict" /\ "statement" \in DOMAIN item.d)}})
    \cup (IF "queries" \notin DOMAIN p THEN {}
          ELSE IF p.queries.t # "list" THEN {<<"queries", -2>>}
          ELSE {<<"queries", i>> : i \in {i \in DOMAIN p.queries.items :
                    LET item == p.queries.items[i] IN
                    \/ item.t # "dict"
                    \/ ~({"query_id", "query", "runquantity", "executiontime"}
                            \subseteq DOMAIN item.d)
                    \/ ~PyInt(item.d.runquantity).ok
                    \/ ~PyInt(item.d.executiontime).ok}})

\* the number of problems an error result lists
ListedProblems(result) ==
    IF "error" \notin DOMAIN result THEN 0
    ELSE IF result.details.t = "list" THEN Len(result.details.items)
    ELSE IF result.details.t = "missing" THEN Len(result.details.fields)
    ELSE 1

\* C10: the validator collects all structural errors of a request: the error
\* it returns lists every structural problem of the payload, not only the
\* first one.
C10_AllStructuralErrorsListed ==
    vout # <<>> => ListedProblems(vout) >= Cardinality(StructuralProblems(vin))

\* str(query_id) of the query elements of the payload p, in order
QueryIdsOf(p) ==
    [i \in DOMAIN p.queries.items |-> PyStr(p.queries.items[i].d.query_id)]

\* the query_ids that are not blank and that two queries of p carry
DuplicatedIds(p) ==
    LET ids == QueryIdsOf(p) IN
    {ids[i] : i \in {i \in DOMAIN ids :
                        /\ ids[i] \notin WhitespaceOnly
                        /\ \E j \in DOMAIN ids : j # i /\ ids[j] = ids[i]}}

Elements(xs) == {xs[i] : i \in DOMAIN xs}

\* C11: if two queries of a request carry the same query_id that is not
\* blank, validation fails with an error that names this query_id and the
\* result holds no parsed data (no url, ddl or queries); if all query_ids are
\* non-blank and pairwise distinct no error about a duplicate is reported.
\* Both for the validation of the agent and for
\* SchemaDataValidator.validate_queries.
C11_DuplicateQueryIdNamed ==
    vout # <<>> =>
        LET ids == QueryIdsOf(vin)
            listed == IF "error" \in DOMAIN vout.result /\ vout.result.details.t = "list"
                      THEN Elements(vout.result.details.items) ELSE {}
        IN /\ \A d \in DuplicatedIds(vin) :
                /\ "error" \in DOMAIN vout.result
                /\ DOMAIN vout.result \cap {"url", "ddl", "queries"} = {}
                /\ ("Duplicate query_id found: " \o d) \in listed
                /\ ~vout.checked.is_valid
                /\ ("Duplicate query_id: " \o d) \in Elements(vout.checked.errors)
           /\ (/\ \A i \in DOMAIN ids : ids[i] \notin WhitespaceOnly
               /\ \A i, j \in DOMAIN ids : i # j => ids[i] # ids[j])
                 => \A i \in DOMAIN ids :
                       /\ ("Duplicate query_id found: " \o ids[i]) \notin listed
                       /\ ("Duplicate query_id: " \o ids[i])
                             \notin Elements(vout.checked.errors)

\* three queries, the first and the third with the query_id "q1"
C11_Witness ==
    /\ vout # <<>>
    /\ vin.queries.items = <<Q1, Q2, Q1>>
    /\ DuplicatedIds(vin) = {"q1"}
    /\ vout.result.details = ListV(<<"Duplicate query_id found: q1">>)

\* the warnings the negative metrics of the queries of p call for, by the
\* query they belong to
NegativeMetricWarnings(p) ==
    LET items == p.queries.items IN
    {"Query " \o PyStr(items[i].d.query_id) \o " has a negative runquantity" :
        i \in {i \in DOMAIN items : PyInt(items[i].d.runquantity).n < 0}}
    \cup
    {"Query " \o PyStr(items[i].d.query_id) \o " has a negative executiontime" :
        i \in {i \in DOMAIN items : PyInt(items[i].d.executiontime).n < 0}}

\* what _validate_parsed_data does with the parsed payload p
ValidationOf(p) ==
    _validate_parsed_data(ParseDdl(p.ddl.items, 0, <<>>).parsed,
                          ParseQueries(p.queries.items, 0, <<>>).parsed)

WarningsOf(result) ==
    IF result.t = "dict" /\ "warnings" \in DOMAIN result.d /\ result.d.warnings.t = "list"
    THEN Elements(result.d.warnings.items) ELSE {}

\* C13: the warnings of the validation are returned with a successful
\* result: when a request whose validation gave warnings is answered with
\* success, the warnings of the result, and of the answer built from it, hold
\* each of them.
C13_WarningsReturnedWithSuccess ==
    \A r \in Reqs :
        (/\ pc[r] = "done"
         /\ resp[r].success
         /\ ~InvalidRequest(payload[r])) =>
            \A w \in NegativeMetricWarnings(payload[r]) :
                /\ w \in WarningsOf(out[r]) \/ StrV(w) \in WarningsOf(out[r])
                /\ w \in Elements(resp[r].warnings)
                      \/ StrV(w) \in Elements(resp[r].warnings)

\* the extractor returned a text that parses to the value v
ExtractedValue(v) ==
    /\ vout.result.ok
    /\ json_loads(vout.result.text).ok
    /\ json_loads(vout.result.text).val = v

\* C14: round trip of the extractor: for a well-formed JSON object embedded
\* in prose or in a fenced block, safe_extract_json returns a text that
\* parses to a value equal to the object, also when string values of the
\* object hold braces, brackets or backticks and when the prose holds braces
\* or brackets.
C14_ExtractorRoundTrip ==
    (vout # <<>> /\ vin.body \in JsonObjects) => ExtractedValue(vin.body.val)

\* the candidates of the extractor in the order it tries them
Tried == vout.objects \o vout.arrays

\* the position in the scanned text at which the candidate c closes (the
\* first one, should c occur more than once)
ClosePos(c) ==
    LET ends == {e \in Len(c)..Len(vout.text) :
                    SubSeq(vout.text, e - Len(c) + 1, e) = c}
    IN CHOOSE e \in ends : \A f \in ends : e <= f

\* C15: the candidates of the extractor, objects and arrays together, are
\* tried in the order in which their closing character appears in the text.
C15_CandidatesInClosingOrder ==
    vout # <<>> =>
        \A i, j \in DOMAIN Tried : i < j => ClosePos(Tried[i]) < ClosePos(Tried[j])

\* the places in the candidate order whose candidate parses as JSON
ValidPlaces == {i \in DOMAIN Tried : json_loads(Tried[i]).ok}

\* the first of them
FirstValid == CHOOSE i \in ValidPlaces : \A j \in ValidPlaces : i <= j

\* C16: the extractor returns the first candidate, in candidate order, that
\* parses as JSON; the invalid candidates before it are skipped, so of two
\* fragments of which only the second is valid the second is returned.
C16_FirstParsingCandidateReturned ==
    (vout # <<>> /\ ValidPlaces # {}) =>
        /\ vout.result.ok
        /\ vout.result.text = Tried[FirstValid]

\* two fragments, only the second valid, and the second is what came back
C16_Witness ==
    /\ vout # <<>>
    /\ Len(Tried) = 2
    /\ ValidPlaces = {2}
    /\ vout.result.ok
    /\ vout.result.text = Tried[2]

\* C17: every string the extractor returns parses as JSON; it fails exactly
\* when no candidate parses and the whole text, fences removed, does not
\* parse either; the whole text is what it returns only when every candidate
\* has failed.
C17_ExtractorReturnsJsonOrFails ==
    vout # <<>> =>
        /\ vout.result.ok => json_loads(vout.result.text).ok
        /\ ~vout.result.ok <=> (ValidPlaces = {} /\ ~json_loads(vout.text).ok)
        /\ (vout.result.ok /\ ValidPlaces # {}) =>
                \E i \in ValidPlaces :
                    /\ vout.result.text = Tried[i]
                    /\ (vout.result.text = vout.text => i = FirstValid)

\* there were candidates, none parsed, and the whole text was returned
C17_Witness ==
    /\ vout # <<>>
    /\ Tried # <<>>
    /\ ValidPlaces = {}
    /\ vout.result.ok
    /\ vout.result.text = vout.text

\* the extractor failed: no candidate and not the whole text parses
C17_WitnessFailure ==
    /\ vout # <<>>
    /\ Tried # <<>>
    /\ ~vout.result.ok

\* the keys every review result is to hold
ResultKeys == {"ddl", "migrations", "queries"}

\* the run of r got past parse_response: the response held JSON
Parsed(r) == pc[r] = "done" /\ Ran(r, "parse_response") /\ ~ParseFailed(r)

\* the JSON value the response of r holds
ParsedValue(r) == json_loads(safe_extract_json(st[r].response.toks).text).val

\* C18: after a successful parse, when the parsed result is a JSON object
\* that lacks some of the keys ddl, migrations, queries, the result review
\* returns holds each missing key with an empty list, and is no error.
C18_MissingKeysDefaulted ==
    \A r \in Reqs :
        (Parsed(r) /\ ParsedValue(r).t = "dict") =>
            /\ ~IsError(out[r])
            /\ \A k \in ResultKeys \ DOMAIN ParsedValue(r).d :
                  /\ k \in DOMAIN out[r].d
                  /\ out[r].d[k] = ListV(<<>>)

\* the head of the report for the three counts
DiffCounts(added, removed, unchanged) ==
    JoinLines(<< <<"=== SCHEMA DIFF ===">>,
                 <<"Added: ", IntToStr(added)>>,
                 <<"Removed: ", IntToStr(removed)>>,
                 <<"Unchanged: ", IntToStr(unchanged)>> >>)

\* C19: for all DDL lists current and proposed the diff has added = proposed
\* minus current, removed = current minus proposed and unchanged = their
\* intersection, over the exact statements; the three are pairwise disjoint,
\* their union is the union of the two inputs, and a statement repeated in a
\* list counts once in the numbers of the report.
C19_DiffIsSetDifference ==
    vout # <<>> =>
        LET current == SetOf(vin.current_schema)
            proposed == SetOf(vin.proposed_schema)
            d == vout.diff
        IN /\ d.added = {s \in proposed : s \notin current}
           /\ d.removed = {s \in current : s \notin proposed}
           /\ d.unchanged = {s \in current : s \in proposed}
           /\ d.added \cap d.removed = {}
           /\ d.added \cap d.unchanged = {}
           /\ d.removed \cap d.unchanged = {}
           /\ d.added \cup d.removed \cup d.unchanged = current \cup proposed
           /\ IsPrefix(DiffCounts(Cardinality(d.added), Cardinality(d.removed),
                                  Cardinality(d.unchanged)), d.text)
           /\ SetOf(d.migrations) =
                  {<<"-- Add", "\n">> \o s : s \in d.added}
                  \cup {<<"-- Remove", "\n">> \o s : s \in d.removed}

\* a current schema that repeats a statement, against a proposed schema that
\* keeps it and adds its spelling in lower case: one added, none removed, one
\* unchanged
C19_Witness ==
    /\ vout # <<>>
    /\ vin.current_schema = <<CreateTable, CreateTable>>
    /\ vin.proposed_schema = <<CreateTable, CreateTableLower>>
    /\ vout.diff.added = {CreateTableLower}
    /\ vout.diff.removed = {}
    /\ vout.diff.unchanged = {CreateTable}
    /\ IsPrefix(DiffCounts(1, 0, 1), vout.diff.text)

\* C20: what the diff of A and B adds is what the diff of B and A removes;
\* the diff of a schema with itself adds nothing, removes nothing, has no
\* breaking change and leaves every statement unchanged.
C20_DiffSymmetricAndIdempotent ==
    vout # <<>> =>
        /\ vout.diff.added = vout.back.removed
        /\ vout.diff.removed = vout.back.added
        /\ SetOf(vin.current_schema) = SetOf(vin.proposed_schema) =>
              /\ vout.diff.added = {}
              /\ vout.diff.removed = {}
              /\ vout.diff.breaking = <<>>
              /\ vout.diff.migrations = <<>>
              /\ vout.diff.unchanged = SetOf(vin.current_schema)

\* a schema with a DROP and an ALTER statement compared with itself, and a
\* pair of different schemas whose diff was taken both ways
C20_Witness ==
    /\ vout # <<>>
    /\ vin.current_schema = <<DropTable, AlterTable>>
    /\ vin.proposed_schema = <<AlterTable, DropTable>>
    /\ vout.diff.unchanged = {DropTable, AlterTable}
    /\ vout.diff.breaking = <<>>

\* two different schemas: what one way adds, the other way removes, and the
\* removed DROP statement is a breaking change
C20_WitnessSymmetric ==
    /\ vout # <<>>
    /\ vin.current_schema = <<DropTable>>
    /\ vin.proposed_schema = <<CreateTable>>
    /\ vout.diff.added = {CreateTable}
    /\ vout.back.removed = {CreateTable}
    /\ vout.diff.breaking = <<DropTable>>

\* the statement s holds DROP or ALTER
Destructive(s) == \E i \in DOMAIN s : s[i] \in {"DROP", "ALTER"}

\* the text t ends with the text s
IsSuffix(s, t) == Len(s) <= Len(t) /\ s = SubSeq(t, Len(t) - Len(s) + 1, Len(t))

\* C21: a statement is listed as a breaking change if and only if it is
\* removed (in current, not in proposed) and its text holds DROP or ALTER; the
\* breaking list is within removed, and no added or unchanged statement is
\* ever in it.
C21_BreakingIffRemovedDestructive ==
    vout # <<>> =>
        LET current == SetOf(vin.current_schema)
            proposed == SetOf(vin.proposed_schema)
            d == vout.diff
        IN /\ \A s \in DiffStatements :
                  s \in SetOf(d.breaking) <=>
                      (s \in current /\ s \notin proposed /\ Destructive(s))
           /\ SetOf(d.breaking) \subseteq d.removed
           /\ SetOf(d.breaking) \cap (d.added \cup d.unchanged) = {}
           /\ Len(d.breaking) = Cardinality(SetOf(d.breaking))
           /\ d.breaking # <<>> =>
                  IsSuffix(JoinLines(<< <<"\n", "-- Breaking changes:">> >>
                                     \o d.breaking), d.text)

\* a DROP statement is removed and listed, while an ALTER statement that is
\* kept and a CREATE statement that is removed are not
C21_Witness ==
    /\ vout # <<>>
    /\ vin.current_schema = <<DropTable, AlterTable>>
    /\ vin.proposed_schema = <<AlterTable, CreateTable>>
    /\ vout.diff.breaking = <<DropTable>>
    /\ vout.diff.unchanged = {AlterTable}
    /\ vout.back.removed = {CreateTable}
    /\ vout.back.breaking = <<>>

RECURSIVE Power(_, _)
Power(b, n) == IF n = 0 THEN 1 ELSE b * Power(b, n - 1)

\* a / b <= c / d, for a, c >= 0 and b, d > 0, without a product
RECURSIVE FracLeq(_, _, _, _)
FracLeq(a, b, c, d) ==
    IF a \div b # c \div d THEN a \div b < c \div d
    ELSE IF a % b = 0 THEN TRUE
    ELSE IF c % d = 0 THEN FALSE
    ELSE FracLeq(d, c % d, b, a % b)

\* the score s is 0.0; it is a float that is not negative
ScoreIsZero(s) == s.time = 0 /\ s.runs > 0
ScoreNotNegative(s) == s.time >= 0 /\ s.runs > 0

\* s <= t for two scores that are not negative:
\* s.time * s.runs^0.7 <= t.time * t.runs^0.7, which is
\* s.time^10 * s.runs^7 <= t.time^10 * t.runs^7
ScoreLeq(s, t) ==
    FracLeq(Power(s.time, 10), Power(t.runs, 7), Power(t.time, 10), Power(s.runs, 7))

\* C22: priority_score is 0 whenever execution_time <= 0 or run_quantity <= 0
\* and is not negative otherwise; it does not decrease when execution_time
\* grows and run_quantity stays, nor when run_quantity grows and
\* execution_time stays.
C22_PriorityScoreMonotone ==
    vout # <<>> =>
        /\ (vin.execution_time <= 0 \/ vin.run_quantity <= 0) => ScoreIsZero(vout.score)
        /\ ScoreNotNegative(vout.score) /\ ScoreNotNegative(vout.other_time)
        /\ ScoreNotNegative(vout.other_quantity)
        /\ (vin.execution_time > 0 /\ vin.run_quantity > 0) => ~ScoreIsZero(vout.score)
        /\ vin.execution_time <= vin.other_time => ScoreLeq(vout.score, vout.other_time)
        /\ vin.run_quantity <= vin.other_quantity =>
              ScoreLeq(vout.score, vout.other_quantity)

\* a query with positive metrics, a larger execution time and a run quantity
\* that is not positive
C22_Witness ==
    /\ vout # <<>>
    /\ vin.execution_time = 2 /\ vin.run_quantity = 3
    /\ vin.other_time = 3 /\ vin.other_quantity = 0
    /\ ScoreIsZero(vout.other_quantity)
    /\ ~ScoreIsZero(vout.score)
    /\ ScoreLeq(vout.score, vout.other_time)
    /\ ~ScoreLeq(vout.other_time, vout.score)

\* the recommendations of kind issue_type among recs
OfType(recs, issue_type) == {i \in DOMAIN recs : recs[i].issue_type = issue_type}

\* exactly one recommendation of the kind, with the impact and the query_id
FiresOnce(recs, issue_type, impact) ==
    /\ Cardinality(OfType(recs, issue_type)) = 1
    /\ \A i \in OfType(recs, issue_type) :
          recs[i].impact = impact /\ recs[i].query_id = vin.query_id

IssueImpact ==
    [full_table_scan |-> "high", complex_joins |-> "high",
     functions_in_where |-> "medium", subquery_in_select |-> "medium"]

\* C23: for every query all matching rules fire: slow_execution (high) iff
\* execution_time > 5000, moderate_execution (medium) iff
\* 1000 < execution_time <= 5000, never both; high_frequency (high) iff
\* run_quantity > 10000; one recommendation for each detected issue among
\* full_table_scan, complex_joins, functions_in_where, subquery_in_select and
\* none for unordered_distinct and aggregation_without_grouping.  A SELECT
\* without WHERE and LIMIT, with execution_time 6000 and run_quantity 20000,
\* gets slow_execution, high_frequency and full_table_scan, all high.
C23_AllMatchingRulesFire ==
    vout # <<>> =>
        LET recs == vout.recommendations
            detected == SetOf(vout.issues)
        IN /\ IF vin.execution_time > 5000
              THEN FiresOnce(recs, "slow_execution", "high")
              ELSE OfType(recs, "slow_execution") = {}
           /\ IF vin.execution_time > 1000 /\ vin.execution_time <= 5000
              THEN FiresOnce(recs, "moderate_execution", "medium")
              ELSE OfType(recs, "moderate_execution") = {}
           /\ IF vin.run_quantity > 10000
              THEN FiresOnce(recs, "high_frequency", "high")
              ELSE OfType(recs, "high_frequency") = {}
           /\ \A k \in DOMAIN IssueImpact :
                 IF k \in detected THEN FiresOnce(recs, k, IssueImpact[k])
                 ELSE OfType(recs, k) = {}
           /\ OfType(recs, "unordered_distinct") = {}
           /\ OfType(recs, "aggregation_without_grouping") = {}
           /\ (/\ vin.execution_time = 6000 /\ vin.run_quantity = 20000
               /\ vin.query \in {QScan, QEverything}) =>
                  /\ "full_table_scan" \in detected
                  /\ FiresOnce(recs, "slow_execution", "high")
                  /\ FiresOnce(recs, "high_frequency", "high")
                  /\ FiresOnce(recs, "full_table_scan", "high")

\* the slow, frequent SELECT without WHERE and LIMIT: three recommendations
C23_Witness ==
    /\ vout # <<>>
    /\ vin.execution_time = 6000 /\ vin.run_quantity = 20000 /\ vin.query = QScan
    /\ Len(vout.recommendations) = 3
    /\ \A i \in DOMAIN vout.recommendations : vout.recommendations[i].impact = "high"

\* a query with five detected issues, two of which give no recommendation
C23_WitnessIssues ==
    /\ vout # <<>>
    /\ vin.execution_time = 5000 /\ vin.run_quantity = 10000 /\ vin.query = QEverything
    /\ {"unordered_distinct", "aggregation_without_grouping"} \subseteq SetOf(vout.issues)
    /\ Len(vout.issues) = 5
    /\ Len(vout.recommendations) = 4

\* the tables after FROM and after JOIN in the query q
FromTables(q) == SetOf(FindAfter(q, "FROM", 1))
JoinTables(q) == SetOf(FindAfter(q, "JOIN", 1))

\* the dependency set of the key t of the graph
DepsOf(graph, t) == UNION {graph[i].deps : i \in {j \in DOMAIN graph : graph[j].table = t}}

\* C24: the keys of the lineage graph are the tables that appear after FROM
\* in some query, each key once, and the dependency set of a key is the union,
\* over the queries that name it after FROM, of the tables after JOIN in
\* those queries.
C24_LineageGraphFromToJoin ==
    vout # <<>> =>
        LET qs == SetOf(vin.queries)
        IN /\ GraphKeys(vout.graph) = UNION {FromTables(q) : q \in qs}
           /\ Cardinality(GraphKeys(vout.graph)) = Len(vout.graph)
           /\ \A t \in GraphKeys(vout.graph) :
                 DepsOf(vout.graph, t) =
                     UNION {JoinTables(q) : q \in {p \in qs : t \in FromTables(p)}}

\* the node of the probe is still waiting for the probe to end
ProbeWaiting == vout.main # "done"

\* the server never answered a request of this run
ServerWasSilent ==
    \/ vin.initialize = "silent"
    \/ vin.initialize \in {"json", "sse"} /\ vin.notification = "silent"
    \/ /\ vin.initialize \in {"json", "sse"} /\ vin.notification # "silent"
       /\ \E k \in DOMAIN ProbeTools :
             /\ vin.tools[k] = "silent"
             /\ \A j \in 1..(k - 1) : vin.tools[j] = "ok"

\* schema_info is a text that tells of the failure
DegradedSchemaInfo(v) ==
    \/ v = StrV("Error connecting to the database via MCP HTTP: ")
    \/ v.t = "list" /\ \E i \in DOMAIN v.items : v.items[i] = "=== MCP ERROR ==="

\* C25: the schema probe is bounded by its timeout whether or not the calling
\* thread has a running event loop: when the probe service never answers, the
\* node does not wait beyond the moment the timeout expires, and it ends with
\* a degraded diagnostic in schema_info.
C25_ProbeBoundedByTimeout ==
    /\ vout.clock > FUTURE_TIMEOUT => ~ProbeWaiting
    /\ (~ProbeWaiting /\ ServerWasSilent) => DegradedSchemaInfo(vout.state_schema_info)

\* the places of the requests of a method on the wire
Sent(method) == {i \in DOMAIN vout.wire : vout.wire[i].method = method}

\* C30: the MCP client sends no tools/call request without a session id
\* obtained from a successful initialize exchange: on the wire initialize
\* comes first, then the notifications/initialized notification, then the
\* tool calls, all with the session id the server gave; when initialize is
\* answered with a status other than 200 the client is entered without a
\* session id and a tool call fails with an error before anything is sent.
C30_NoToolCallWithoutSession ==
    /\ \A i \in Sent("tools/call") :
          /\ vout.wire[i].session_id = StrV(SessionId)
          /\ vout.wire[i].session_id = vout.session_id
          /\ vin.initialize \in {"json", "sse"}
          /\ i > 2
          /\ vout.wire[i].tool = ProbeTools[i - 2]
    /\ vout.wire # <<>> => Sent("initialize") = {1}
    /\ Sent("notifications/initialized") \subseteq {2}
    /\ \A i \in Sent("notifications/initialized") :
          vout.wire[i].session_id = StrV(SessionId)
    /\ Len(vout.wire) > 2 => Sent("notifications/initialized") = {2}
    /\ vin.initialize = "status_not_200" =>
          /\ vout.session_id = NoneV
          /\ Len(vout.wire) <= 1
          /\ vout.co \in {"start", "init_wait", "entered", "exiting", "closed"}
          /\ vout.co \in {"exiting", "closed"} =>
                vout.schema_info = <<"=== MCP ERROR ===">>

\* initialize, the notification and the three tool calls of the probe, sent
\* in this order with one session id
C30_Witness ==
    /\ Len(vout.wire) = 5
    /\ Sent("tools/call") = {3, 4, 5}
    /\ vout.main = "done"

\* initialize was refused, the client was entered all the same and the first
\* tool call failed with nothing sent
C30_WitnessRefused ==
    /\ vin.initialize = "status_not_200"
    /\ vout.co = "closed"
    /\ Len(vout.wire) = 1

(***************************************************************************)
(* The state of one pipeline execution.                                    *)
(***************************************************************************)
\* the fields of PipelineState the claim is about
OwnedFields == {"ddl", "queries", "url", "schema_info", "performance_analysis",
                "data_lineage", "prompt", "response", "result"}

\* the fields of the state a node reads
ReadsOf(n) ==
    CASE n = "validate_schema" -> {"url"}
      [] n = "analyze_performance" -> {"queries"}
      [] n = "analyze_lineage" -> {"queries"}
      [] n = "compose_prompt" -> {"ddl", "queries", "url", "schema_info",
                                  "performance_analysis", "data_lineage"}
      [] n = "call_llm" -> {"prompt"}
      [] n = "parse_response" -> {"response"}
      [] n = "validate_changes" -> {"ddl", "result"}

\* the state request r would have after the nodes trace[r][i..] if it ran
\* alone on a thread without a checkpoint, the provider answering what it
\* answered to r
\* _parse_and_validate_payload and _parse_response_node, which reads the
\* response only, tabulated over the payloads and the provider's texts
ParsedPayloads == [p \in PipelinePayloads |-> _parse_and_validate_payload(p)]
ParsedResponses ==
    [x \in ResponseTexts |-> _parse_response_node([response |-> TextV(x)])]

RECURSIVE Replay(_, _, _)
Replay(r, state, i) ==
    IF i > Len(trace[r]) THEN state
    ELSE LET n == trace[r][i]
             parsed == ParsedResponses[state.response.toks]
             next ==
               CASE n = "validate_schema" ->
                      _validate_schema_node(state, IF "schema_probe" \in faulty
                                                   THEN "error" ELSE "ok")
                 [] n = "analyze_performance" ->
                      _analyze_performance_node(state, "performance" \in faulty)
                 [] n = "analyze_lineage" ->
                      _analyze_lineage_node(state, "lineage" \in faulty)
                 [] n = "compose_prompt" -> _compose_prompt_node(state)
                 [] n = "call_llm" ->
                      IF llmOutcome[r] = "error" THEN state
                      ELSE _call_llm_node(state, [raised |-> FALSE,
                                                  text |-> st[r].response.toks],
                                          maxSize).state
                 [] n = "parse_response" ->
                      IF parsed.raised THEN state
                      ELSE Put(state, "result", parsed.state.result)
                 [] n = "validate_changes" -> _validate_changes_node(state)
                 [] OTHER -> state
         IN Replay(r, next, i + 1)

\* what request r alone has made of its own payload
Own(r) == Replay(r, InitialState(ParsedPayloads[payload[r]]), 1)

\* request r passed validation and entered the graph
Entered(r) ==
    /\ pc[r] \in {"running", "done"}
    /\ st[r] # <<>>

\* C26: under any interleaving of the requests, on the same thread or not,
\* every owned field a request has written holds the value the request
\* alone makes of its own payload, every field a scheduled node is about to
\* read has been written by the request itself, and the result returned to
\* the caller is the result of the request's own state
C26_StateOwnedByOneExecution ==
    \A r \in Reqs :
        Entered(r) =>
            LET own == Own(r) IN
            /\ \A f \in OwnedFields \cap DOMAIN own : st[r][f] = own[f]
            /\ \A n \in active[r] : ReadsOf(n) \cap OwnedFields \subseteq DOMAIN own
            /\ (pc[r] = "done" /\ Last(trace[r]) = "validate_changes")
                   => out[r] = own.result

\* a request has started on the thread of a different request and its state
\* still holds the performance analysis of that one, which no node has read
C26_Witness ==
    \E r, q \in Reqs :
        /\ r # q
        /\ Entered(r) /\ Entered(q)
        /\ ThreadOf(payload[r]) = ThreadOf(payload[q])
        /\ payload[r] # payload[q]
        /\ pc[r] = "running" /\ active[r] = {"validate_schema"}
        /\ "performance_analysis" \in DOMAIN st[r]
        /\ st[r].performance_analysis = st[q].performance_analysis
        /\ st[r].performance_analysis
              # _analyze_performance_node(st[r], FALSE).performance_analysis

\* two requests with different payloads have run on one thread and each has
\* got the result of its own provider response
C26_WitnessReturned ==
    \E r, q \in Reqs :
        /\ r # q
        /\ ThreadOf(payload[r]) = ThreadOf(payload[q])
        /\ payload[r] # payload[q]
        /\ Parsed(r) /\ Parsed(q)
        /\ Last(trace[r]) = "validate_changes" /\ Last(trace[q]) = "validate_changes"
        /\ st[r].response # st[q].response
        /\ out[r] # out[q]

\* C27: whenever max_size is even and positive, after any number of rounds
\* chat_history starts with a user turn and alternates user and assistant
\* turns, and after a round the provider has answered it ends with the user
\* turn and the assistant turn of that round
C27_NoDanglingTurnAtHead ==
    (vin.max_size > 0 /\ vin.max_size % 2 = 0) =>
        LET chat_history == HistoryOf(vout.state) IN
        /\ chat_history # <<>> => chat_history[1].role = "user"
        /\ \A i \in DOMAIN chat_history :
              chat_history[i].role = IF i % 2 = 1 THEN "user" ELSE "assistant"
        /\ (vout.rounds > 0 /\ ~vout.raised) =>
              /\ Len(chat_history) >= 2
              /\ Last(chat_history)
                    = [role |-> "assistant", content |-> vout.state.response]
              /\ chat_history[Len(chat_history) - 1]
                    = [role |-> "user", content |-> vout.state.prompt]

\* the maximum is 2 and the third round has cut the turns of the second
\* round off the head
C27_Witness ==
    /\ vin.max_size = 2
    /\ vout.rounds = 3 /\ ~vout.raised
    /\ Len(vout.before) = 2
    /\ HistoryOf(vout.state) = <<[role |-> "user", content |-> "p2"],
                                 [role |-> "assistant", content |-> TextV(<<"a1">>)]>>

(***************************************************************************)
(* The call of the reasoning provider.                                     *)
(***************************************************************************)
\* the place of node n in the run of request r, 0 if it has not run
PlaceOf(r, n) ==
    IF Ran(r, n) THEN CHOOSE i \in DOMAIN trace[r] : trace[r][i] = n ELSE 0

\* the message a turn of the history becomes
MessageOf(turn) ==
    [type |-> IF turn.role = "user" THEN "human" ELSE "ai", content |-> turn.content]

\* messages is the system message, the turns of chat_history in order and
\* the prompt, once, as the last message
SystemHistoryPrompt(messages, chat_history, prompt) ==
    /\ Len(messages) = Len(chat_history) + 2
    /\ messages[1] = [type |-> "system", content |-> "system_reviewer"]
    /\ \A i \in DOMAIN chat_history : messages[i + 1] = MessageOf(chat_history[i])
    /\ Last(messages) = [type |-> "human", content |-> prompt]

\* C28: a run that passes validation invokes the provider exactly once, after
\* compose_prompt; the provider receives the system message, the turns
\* chat_history held before the round in order and the prompt as the one
\* last message; the history is extended by the two turns only when the
\* provider has answered
C28_ProviderCalledOnceWithHistoryThenPrompt ==
    \A r \in Reqs :
        /\ Len(sent[r]) <= 1
        /\ (Entered(r) /\ pc[r] = "done") => Len(sent[r]) = 1
        /\ sent[r] # <<>> =>
              /\ Entered(r)
              /\ 0 < PlaceOf(r, "compose_prompt")
              /\ PlaceOf(r, "compose_prompt") < PlaceOf(r, "call_llm")
              /\ st[r].prompt = _compose_prompt_node(st[r]).prompt
              /\ SystemHistoryPrompt(sent[r][1], before[r], st[r].prompt)
              /\ Cardinality({i \in DOMAIN sent[r][1] :
                                /\ sent[r][1][i].type # "system"
                                /\ sent[r][1][i].content = st[r].prompt}) = 1
              /\ llmOutcome[r] = "error" => HistoryOf(st[r]) = before[r]
              /\ llmOutcome[r] = "ok" =>
                    HistoryOf(st[r])
                       = before[r] \o <<[role |-> "user", content |-> st[r].prompt],
                                        [role |-> "assistant",
                                         content |-> st[r].response]>>
        /\ sent[r] = <<>> => HistoryOf(st[r]) = <<>>

\* a run has called the provider once and has gone on to its end with the
\* history extended, another has called it and the provider has failed
C28_Witness ==
    \E r, q \in Reqs :
        /\ pc[r] = "done" /\ Last(trace[r]) = "validate_changes"
        /\ Len(sent[r]) = 1 /\ Len(sent[r][1]) = 2
        /\ Len(HistoryOf(st[r])) = 2
        /\ llmOutcome[q] = "error" /\ Len(sent[q]) = 1

\* C28, for _call_llm_node on a state that has kept its history: the
\* messages of every round are the system message, the turns of the history
\* before the round and the prompt, and a round the provider fails leaves the
\* history as it was
C28_RoundsSendHistoryThenPrompt ==
    vout.rounds > 0 =>
        /\ SystemHistoryPrompt(vout.messages, vout.before, vout.state.prompt)
        /\ vout.raised => HistoryOf(vout.state) = vout.before
        /\ (~vout.raised /\ vin.max_size >= Len(vout.before) + 2) =>
              HistoryOf(vout.state)
                 = vout.before \o <<[role |-> "user", content |-> vout.state.prompt],
                                    [role |-> "assistant",
                                     content |-> vout.state.response]>>

\* a round that has sent two earlier turns before its prompt
C28_WitnessRounds ==
    /\ Len(vout.before) = 2
    /\ Len(vout.messages) = 4
    /\ vout.messages[2].type = "human" /\ vout.messages[3].type = "ai"

(***************************************************************************)
(* The frame of validate_changes.                                          *)
(***************************************************************************)
\* the step of request r in which node n runs
Runs(r, n) == trace'[r] = Append(trace[r], n)

\* request r leaves graph.invoke through END
Returns(r) == pc[r] = "running" /\ active[r] = {} /\ pc'[r] = "done"

\* C29: the step of validate_changes writes schema_diff and leaves every
\* other field of the state as it was, ddl, queries, response, result and
\* chat_history among them, and the result then returned to the caller is
\* the JSON value parsed from the provider's response
C29_ValidateChangesWritesOnlySchemaDiff ==
    [][\A r \in Reqs :
          /\ Runs(r, "validate_changes") =>
                /\ DOMAIN st'[r] = DOMAIN st[r] \cup {"schema_diff"}
                /\ \A k \in DOMAIN st[r] \ {"schema_diff"} : st'[r][k] = st[r][k]
                /\ {"ddl", "queries", "response", "result", "chat_history"}
                      \subseteq DOMAIN st[r]
                /\ st'[r].result = ParsedValue(r)
          /\ Returns(r) => out'[r] = ParsedValue(r)]_vars

\* the diff has succeeded for one request and failed for another, and each
\* caller has got the value parsed from its response
C29_Witness ==
    \E r, q \in Reqs :
        /\ pc[r] = "done" /\ Last(trace[r]) = "validate_changes"
        /\ st[r].schema_diff.t = "report"
        /\ st[r].schema_diff.input.proposed_schema # <<>>
        /\ out[r] = ParsedValue(r)
        /\ pc[q] = "done" /\ DiffFails(q)
        /\ st[q].schema_diff = SchemaDiffDiagnostic
        /\ out[q] = ParsedValue(q)

====
